---------------------------- MODULE Spec2Model ----------------------------
(***************************************************************************)
(* A model of block_scoping (src/block_scoping/scoped.py and               *)
(* check_files.py): the ScopeChecker AST visitor, the class analyzer       *)
(* _check_class and the two drivers (check_file in batch mode, the         *)
(* block_scoping decorator in strict mode).                                *)
(*                                                                         *)
(* The recursive traversal of ast.NodeVisitor is modelled with an explicit *)
(* stack of frames, `work`: visiting a node replaces its frame by the      *)
(* frames of what the handler does next (enter a scope, visit a child,     *)
(* leave the scope, ...).  One action per visit_* handler.                 *)
(*                                                                         *)
(* Identifiers are sequences of characters, so that f"self.{attr}",        *)
(* str.startswith and the regular expression builtin_var are computed as   *)
(* the code computes them.                                                 *)
(***************************************************************************)
EXTENDS Integers, Sequences, FiniteSets, TLC

VARIABLES
    filename,         \* ScopeChecker._filename: "F" in batch mode, None in strict mode
    units,            \* tree.body: the top-level statements handed to the driver
    module_globals,   \* inspect.getmodule(...).__dict__.keys() (strict mode only)
    pc,               \* where the driver / class analyzer stands
    idx,              \* check_file: position of the second loop in tree.body
    vars,             \* check_file: the list `vars`, shared by every unit of the file
    all_errors,       \* check_file: all_errors
    is_sub_class,     \* _check_class: is_sub_class
    method_nodes,     \* _check_class: method_nodes (a dict: here an ordered sequence)
    obj_attrs,        \* _check_class: obj_attrs
    cls_errors,       \* _check_class: all_errors
    mi,               \* _check_class: position of the loop over method_nodes.items()
    scopes,           \* ScopeChecker._scopes
    for_loop_vars,    \* ScopeChecker._for_loop_vars
    attr_check,       \* ScopeChecker._attr_check
    last_func_scope,  \* ScopeChecker.last_func_scope
    errors,           \* ScopeChecker.errors
    work,             \* the traversal still to do: a stack of frames, head first
    raised,           \* a BlockScopingException is propagating (strict mode)
    last,             \* history: the compound construct left most recently
    assign_target,    \* _extract_assign_vars called on its own: target_node
    leaf_names,       \* history: the leaf names that target was built from
    result,           \* _extract_assign_vars: the list it returned (none before the return)
    file_paths,       \* process_files: file_paths, the requested files and directories
    exclude,          \* process_files: exclude
    path_i,           \* process_files: position of the loop over file_paths
    pending,          \* process_files: what find_python_files has still to yield
    proc_errors,      \* process_files: errors
    proc_pc           \* process_files: "idle", "loop", "returned" or "raised"

driver_vars == <<filename, units, module_globals, pc, idx, vars, all_errors>>
class_vars == <<is_sub_class, method_nodes, obj_attrs, cls_errors, mi>>
checker_vars == <<scopes, for_loop_vars, attr_check, last_func_scope, errors,
                  work, raised>>
extract_vars == <<assign_target, leaf_names, result>>
files_vars == <<file_paths, exclude, path_i, pending, proc_errors, proc_pc>>
all_vars == <<driver_vars, class_vars, checker_vars, last, extract_vars, files_vars>>

None == "None"
BatchFile == "F"

(***************************************************************************)
(* Identifiers                                                             *)
(***************************************************************************)
nx == <<"x">>
ny == <<"y">>
nz == <<"z">>
nc == <<"c">>
ne == <<"e">>
ni == <<"i">>
nj == <<"j">>
ns == <<"s">>
na == <<"a">>
nb == <<"b">>
nm == <<"m">>
nv == <<"v">>
nf == <<"f">>
ng == <<"g">>
nA == <<"A">>
nB == <<"B">>
nself == <<"s", "e", "l", "f">>
nunderscore == <<"_">>
ninit == <<"_", "_", "i", "n", "i", "t", "_", "_">>
nprint == <<"p", "r", "i", "n", "t">>
nrange == <<"r", "a", "n", "g", "e">>
nException == <<"E", "x", "c">>
\* no_block_scoping.__name__
block_scope_name ==
    <<"b", "l", "o", "c", "k", "_", "s", "c", "o", "p", "e">>
no_block_scoping_name ==
    <<"n", "o", "_", "b", "l", "o", "c", "k", "_", "s", "c", "o", "p", "i", "n", "g">>

\* dir(builtins), cut down to the identifiers the inputs use
Builtins == {nprint, nrange, nException}

\* f"self.{attr}"
SelfDot == nself \o <<".">>
SelfAttr(attr) == SelfDot \o attr

\* str.startswith("self.")
StartsWithSelfDot(v) ==
    /\ Len(v) >= Len(SelfDot)
    /\ SubSeq(v, 1, Len(SelfDot)) = SelfDot

\* builtin_var = re.compile("__(.+)__"), used with .match: anchored at the
\* start only; (.+) is at least one character; the closing "__" may be
\* followed by anything.
builtin_var_match(v) ==
    /\ Len(v) >= 5
    /\ v[1] = "_"
    /\ v[2] = "_"
    /\ \E i \in 4..(Len(v) - 1) : v[i] = "_" /\ v[i + 1] = "_"

(***************************************************************************)
(* The abstract syntax tree (the ast module's node classes and _fields)    *)
(***************************************************************************)
Name(id, ctx, lineno) == [k |-> "Name", id |-> id, ctx |-> ctx, lineno |-> lineno]
Load(id, lineno) == Name(id, "Load", lineno)
Store(id, lineno) == Name(id, "Store", lineno)
Constant == [k |-> "Constant"]
Attribute(value, attr, ctx, lineno) ==
    [k |-> "Attribute", value |-> value, attr |-> attr, ctx |-> ctx, lineno |-> lineno]
Call(func, args) == [k |-> "Call", func |-> func, args |-> args]
NamedExpr(target, value) == [k |-> "NamedExpr", target |-> target, value |-> value]
Tuple(elts, lineno) == [k |-> "Tuple", elts |-> elts, lineno |-> lineno]
Starred(value) == [k |-> "Starred", value |-> value]
Subscript(value) == [k |-> "Subscript", value |-> value]
BinOp(left, right) == [k |-> "BinOp", left |-> left, right |-> right]
List(elts, lineno) == [k |-> "List", elts |-> elts, lineno |-> lineno]
\* ast.comprehension: one `for target in iter if ...` clause
comprehension(target, iter, ifs) ==
    [k |-> "comprehension", target |-> target, iter |-> iter, ifs |-> ifs]
ListComp(elt, generators) == [k |-> "ListComp", elt |-> elt, generators |-> generators]
SetComp(elt, generators) == [k |-> "SetComp", elt |-> elt, generators |-> generators]
GeneratorExp(elt, generators) ==
    [k |-> "GeneratorExp", elt |-> elt, generators |-> generators]
DictComp(key, value, generators) ==
    [k |-> "DictComp", key |-> key, value |-> value, generators |-> generators]

Expr(value) == [k |-> "Expr", value |-> value]
Pass == [k |-> "Pass"]
Assign(targets, value) == [k |-> "Assign", targets |-> targets, value |-> value]
AugAssign(target, value, lineno) ==
    [k |-> "AugAssign", target |-> target, value |-> value, lineno |-> lineno]
\* AnnAssign.value is None (<<>>) or <<expr>>
AnnAssign(target, annotation, value) ==
    [k |-> "AnnAssign", target |-> target, annotation |-> annotation, value |-> value]
\* withitem.optional_vars is None (<<>>) or <<expr>>
withitem(context_expr, optional_vars) ==
    [k |-> "withitem", context_expr |-> context_expr, optional_vars |-> optional_vars]
With(items, body) == [k |-> "With", items |-> items, body |-> body]
If(test, body, orelse) == [k |-> "If", test |-> test, body |-> body, orelse |-> orelse]
For(target, iter, body) ==
    [k |-> "For", target |-> target, iter |-> iter, body |-> body, orelse |-> <<>>]
While(test, body) == [k |-> "While", test |-> test, body |-> body, orelse |-> <<>>]
\* ExceptHandler.name is None or an identifier; type is None (<<>>) or <<expr>>
ExceptHandler(type, name, body) ==
    [k |-> "ExceptHandler", type |-> type, name |-> name, body |-> body]
Try(body, handlers, orelse, finalbody) ==
    [k |-> "Try", body |-> body, handlers |-> handlers, orelse |-> orelse,
     finalbody |-> finalbody]
\* ast.arguments: vararg and kwarg are None (<<>>) or one identifier (<<id>>)
Arguments(args) ==
    [posonlyargs |-> <<>>, args |-> args, vararg |-> <<>>, kwonlyargs |-> <<>>,
     kwarg |-> <<>>]
FunctionDef(name, args, body, decorator_list) ==
    [k |-> "FunctionDef", name |-> name, args |-> args, body |-> body,
     decorator_list |-> decorator_list]
AsyncFunctionDef(name, args, body, decorator_list) ==
    [k |-> "AsyncFunctionDef", name |-> name, args |-> args, body |-> body,
     decorator_list |-> decorator_list]
\* ast.Lambda: its parameters and the expression it returns
Lambda(args, body) == [k |-> "Lambda", args |-> args, body |-> body]
ClassDef(name, bases, body) ==
    [k |-> "ClassDef", name |-> name, bases |-> bases, body |-> body,
     decorator_list |-> <<>>]

\* The children generic_visit visits, in the order of the node's _fields
Children(node) ==
    CASE node.k = "Attribute" -> <<node.value>>
      [] node.k = "Call" -> <<node.func>> \o node.args
      [] node.k = "NamedExpr" -> <<node.target, node.value>>
      [] node.k = "Tuple" -> node.elts
      [] node.k = "Starred" -> <<node.value>>
      [] node.k = "Subscript" -> <<node.value>>
      [] node.k = "BinOp" -> <<node.left, node.right>>
      [] node.k = "List" -> node.elts
      [] node.k = "comprehension" -> <<node.target, node.iter>> \o node.ifs
      [] node.k \in {"ListComp", "SetComp", "GeneratorExp"} ->
            <<node.elt>> \o node.generators
      [] node.k = "DictComp" -> <<node.key, node.value>> \o node.generators
      [] node.k = "AugAssign" -> <<node.target, node.value>>
      [] node.k = "AnnAssign" -> <<node.target, node.annotation>> \o node.value
      [] node.k = "withitem" -> <<node.context_expr>> \o node.optional_vars
      [] node.k = "With" -> node.items \o node.body
      [] node.k = "Expr" -> <<node.value>>
      [] node.k = "Assign" -> node.targets \o <<node.value>>
      [] node.k = "If" -> <<node.test>> \o node.body \o node.orelse
      [] node.k = "Try" -> node.body \o node.handlers \o node.orelse \o node.finalbody
      [] node.k = "For" -> <<node.target, node.iter>> \o node.body \o node.orelse
      [] node.k = "While" -> <<node.test>> \o node.body \o node.orelse
      [] node.k = "ExceptHandler" -> node.type \o node.body
      [] node.k \in {"FunctionDef", "AsyncFunctionDef"} ->
            node.body \o node.decorator_list
      [] node.k = "ClassDef" -> node.bases \o node.body \o node.decorator_list
      [] node.k = "Lambda" -> <<node.body>>
      [] OTHER -> <<>>

(***************************************************************************)
(* Symbol extraction (pure functions)                                      *)
(***************************************************************************)
RECURSIVE extract_rec(_)
RECURSIVE extract_elts(_)
\* (an extract_rec that yields nothing for a starred element)
extract_rec_ignoring_starred(target) ==
    CASE target.k = "Name" -> <<target.id>>
      [] target.k \in {"Tuple", "List"} -> extract_elts(target.elts)
      [] target.k = "Attribute" ->
            IF /\ target.value.k = "Name"
               /\ target.value.id = nself
               /\ target.value.ctx = "Load"
            THEN <<SelfAttr(target.attr)>>
            ELSE <<>>
      [] OTHER -> <<>>
\* extract_rec of _extract_assign_vars: the names a target binds, left to right
extract_rec(target) ==
    CASE target.k = "Name" -> <<target.id>>
      [] target.k \in {"Tuple", "List"} -> extract_elts(target.elts)
      [] target.k = "Starred" -> extract_rec(target.value)
      [] target.k = "Attribute" ->
            IF /\ target.value.k = "Name"
               /\ target.value.id = nself
               /\ target.value.ctx = "Load"
            THEN <<SelfAttr(target.attr)>>
            ELSE <<>>
      [] OTHER -> <<>>
\* for element in target.elts: extract_rec(element)
extract_elts(elts) ==
    IF elts = <<>> THEN <<>>
    ELSE extract_rec(Head(elts)) \o extract_elts(Tail(elts))

_extract_assign_vars(target_node) == extract_rec(target_node)

RECURSIVE _extract_comprehension_vars_from(_)
\* the loop `for generator in node.generators` of _extract_comprehension_vars:
\* a Name target, or the Name elements of a Tuple target
_extract_comprehension_vars_from(generators) ==
    IF generators = <<>> THEN <<>>
    ELSE LET target == Head(generators).target
             IsName(elt) == elt.k = "Name"
             names == SelectSeq(target.elts, IsName)
         IN (CASE target.k = "Name" -> <<target.id>>
               [] target.k = "Tuple" -> [i \in 1..Len(names) |-> names[i].id]
               [] OTHER -> <<>>)
            \o _extract_comprehension_vars_from(Tail(generators))
\* (the targets of the first generator clause only)
_extract_comprehension_vars_of_first_generator(node) ==
    _extract_comprehension_vars_from(SubSeq(node.generators, 1, 1))
_extract_comprehension_vars(node) == _extract_comprehension_vars_from(node.generators)

Range(seq) == {seq[i] : i \in 1..Len(seq)}

RECURSIVE WalrusVisitor_visit(_)
RECURSIVE WalrusVisitor_visit_all(_)
\* WalrusVisitor: visit_NamedExpr records a Name target and does not descend;
\* every other node is traversed by generic_visit
WalrusVisitor_visit(node) ==
    IF node.k = "NamedExpr"
    THEN IF node.target.k = "Name" THEN <<node.target.id>> ELSE <<>>
    ELSE WalrusVisitor_visit_all(Children(node))
WalrusVisitor_visit_all(nodes) ==
    IF nodes = <<>> THEN <<>>
    ELSE WalrusVisitor_visit(Head(nodes)) \o WalrusVisitor_visit_all(Tail(nodes))

\* ScopeChecker._walrus_targets: the assignment-expression targets of node.test
_walrus_targets(node) == WalrusVisitor_visit(node.test)

\* _decorated_to_skip_checking
_decorated_to_skip_checking(node) ==
    \E i \in 1..Len(node.decorator_list) :
        /\ node.decorator_list[i].k = "Name"
        /\ node.decorator_list[i].id = no_block_scoping_name

(***************************************************************************)
(* ScopeChecker: the frames of the traversal                               *)
(***************************************************************************)
Visit(node) == [op |-> "visit", node |-> node]
VisitAll(nodes) == [i \in 1..Len(nodes) |-> Visit(nodes[i])]

top == Head(work)
rest == Tail(work)
Visiting(kind) == work # <<>> /\ top.op = "visit" /\ top.node.k = kind
Resuming(op) == work # <<>> /\ top.op = op

\* self._scopes[-1].add / .update
AddToTop(stack, names) == [stack EXCEPT ![Len(stack)] = @ \cup names]
\* self._scopes.append(set(extra_vars)) on entering `with self._scope(...)`
Push(stack, extra_vars) == Append(stack, Range(extra_vars))
\* (a scope that hands its names to the scope around it when it is left)
Pop_keeping_names(stack) ==
    IF Len(stack) > 1
    THEN AddToTop(SubSeq(stack, 1, Len(stack) - 1), stack[Len(stack)])
    ELSE <<>>
\* (a scope that is never popped)
Pop_nothing(stack) == stack
\* self._scopes.pop() on leaving it
Pop(stack) == SubSeq(stack, 1, Len(stack) - 1)

\* the loop `for scope in self._scopes: if v in scope: return` of _check_in_scope,
\* after the builtin_var exemption
InScope(stack, v) ==
    \/ builtin_var_match(v)
    \/ \E i \in 1..Len(stack) : v \in stack[i]

\* _check_in_scope: the diagnostics it hands to _error (none or one)
_check_in_scope(node, v) ==
    IF InScope(scopes, v) THEN <<>>
    ELSE <<[lineno |-> node.lineno, kind |-> "unresolved", var |-> v,
            in_scope |-> UNION {scopes[i] : i \in 2..Len(scopes)}]>>

\* (_error, had it recorded the diagnostic and gone on, whatever the mode)
_error_going_on(errs, cont) ==
    /\ errors' = errors \o errs
    /\ raised' = raised
    /\ work' = cont
\* _error, for the diagnostics `errs` of one handler: each is appended to
\* self.errors; in strict mode (no filename) the first one raises, so nothing
\* after it happens: neither a second diagnostic nor the continuation `cont`.
_error(errs, cont) ==
    IF errs # <<>> /\ filename = None
    THEN /\ errors' = Append(errors, Head(errs))
         /\ raised' = TRUE
         /\ work' = <<>>
    ELSE /\ errors' = errors \o errs
         /\ raised' = raised
         /\ work' = cont
Raises(errs) == errs # <<>> /\ filename = None

(***************************************************************************)
(* ScopeChecker: one action per handler                                    *)
(***************************************************************************)
\* NodeVisitor.generic_visit, for the node classes without a visit_ method
NoHandler == {"Expr", "Call", "Constant", "Pass", "Tuple", "Starred", "Subscript",
              "BinOp", "List", "withitem", "ExceptHandler", "GeneratorExp",
              "comprehension"}
generic_visit ==
    /\ work # <<>> /\ top.op = "visit" /\ top.node.k \in NoHandler
    /\ work' = VisitAll(Children(top.node)) \o rest
    /\ UNCHANGED <<files_vars, extract_vars, driver_vars, class_vars, scopes, for_loop_vars, attr_check,
                   last_func_scope, errors, raised, last>>

visit_Name ==
    /\ Visiting("Name")
    /\ _error(IF top.node.ctx = "Load" THEN _check_in_scope(top.node, top.node.id)
              ELSE <<>>, rest)
    /\ UNCHANGED <<files_vars, extract_vars, driver_vars, class_vars, scopes, for_loop_vars, attr_check,
                   last_func_scope, last>>

visit_Attribute ==
    /\ Visiting("Attribute")
    /\ _error(IF /\ attr_check
                 /\ top.node.value.k = "Name"
                 /\ top.node.value.id = nself
              THEN _check_in_scope(top.node, SelfAttr(top.node.attr))
              ELSE <<>>,
              VisitAll(Children(top.node)) \o rest)
    /\ UNCHANGED <<files_vars, extract_vars, driver_vars, class_vars, scopes, for_loop_vars, attr_check,
                   last_func_scope, last>>

\* the names visit_Assign adds to the current scope before it visits anything
AssignBinds(node) == UNION {Range(_extract_assign_vars(node.targets[i])) :
                            i \in 1..Len(node.targets)}
visit_Assign ==
    /\ Visiting("Assign")
    /\ scopes' = AddToTop(scopes, AssignBinds(top.node))
    /\ work' = VisitAll(Children(top.node)) \o rest
    /\ UNCHANGED <<files_vars, extract_vars, driver_vars, class_vars, for_loop_vars, attr_check,
                   last_func_scope, errors, raised, last>>

visit_NamedExpr ==
    /\ Visiting("NamedExpr")
    /\ scopes' = IF top.node.target.k = "Name"
                 THEN AddToTop(scopes, {top.node.target.id})
                 ELSE scopes
    /\ work' = VisitAll(Children(top.node)) \o rest
    /\ UNCHANGED <<files_vars, extract_vars, driver_vars, class_vars, for_loop_vars, attr_check,
                   last_func_scope, errors, raised, last>>

\* arg_names of visit_FunctionDef
arg_names(node) ==
    node.args.args \o node.args.vararg \o node.args.kwarg \o node.args.kwonlyargs

\* Leaving a compound construct: what the scope stack was on entering it
\* and what it is now (history only)
Left(node, pre, post) == [node |-> node, pre |-> pre, post |-> post]

\* (visit_FunctionDef, had it not looked at the decorators)
visit_FunctionDef_whatever_the_decorators ==
    /\ work # <<>> /\ top.op = "visit"
    /\ top.node.k \in {"FunctionDef", "AsyncFunctionDef"}
    /\ scopes' = Push(AddToTop(scopes, {top.node.name}), arg_names(top.node))
    /\ work' = VisitAll(Children(top.node))
               \o <<[op |-> "FunctionDef_end", node |-> top.node, pre |-> scopes]>>
               \o rest
    /\ UNCHANGED <<files_vars, extract_vars, driver_vars, class_vars, for_loop_vars, attr_check,
                   last_func_scope, errors, raised, last>>
\* visit_FunctionDef (visit_AsyncFunctionDef delegates to it), up to the
\* traversal of the body
visit_FunctionDef ==
    /\ work # <<>> /\ top.op = "visit"
    /\ top.node.k \in {"FunctionDef", "AsyncFunctionDef"}
    /\ IF _decorated_to_skip_checking(top.node)
       THEN /\ scopes' = scopes
            /\ work' = rest
       ELSE /\ scopes' = Push(AddToTop(scopes, {top.node.name}), arg_names(top.node))
            /\ work' = VisitAll(Children(top.node))
                       \o <<[op |-> "FunctionDef_end", node |-> top.node, pre |-> scopes]>>
                       \o rest
    /\ UNCHANGED <<files_vars, extract_vars, driver_vars, class_vars, for_loop_vars, attr_check,
                   last_func_scope, errors, raised, last>>

\* visit_FunctionDef after generic_visit: last_func_scope, then the scope is left
FunctionDef_end ==
    /\ Resuming("FunctionDef_end")
    /\ last_func_scope' = scopes[Len(scopes)]
    /\ scopes' = Pop(scopes)
    /\ work' = rest
    /\ last' = Left(top.node, top.pre, scopes')
    /\ UNCHANGED <<files_vars, extract_vars, driver_vars, class_vars, for_loop_vars, attr_check, errors, raised>>

\* visit_Lambda: a scope holding the names of node.args.args, then the
\* traversal of the lambda
visit_Lambda ==
    /\ work # <<>> /\ top.op = "visit" /\ top.node.k = "Lambda"
    /\ scopes' = Push(scopes, top.node.args.args)
    /\ work' = VisitAll(Children(top.node))
               \o <<[op |-> "Lambda_end", node |-> top.node, pre |-> scopes]>>
               \o rest
    /\ UNCHANGED <<files_vars, extract_vars, driver_vars, class_vars, for_loop_vars, attr_check,
                   last_func_scope, errors, raised, last>>

\* visit_Lambda after generic_visit: the scope is left
Lambda_end ==
    /\ Resuming("Lambda_end")
    /\ scopes' = Pop(scopes)
    /\ work' = rest
    /\ last' = Left(top.node, top.pre, scopes')
    /\ UNCHANGED <<files_vars, extract_vars, driver_vars, class_vars, for_loop_vars, attr_check,
                   last_func_scope, errors, raised>>

\* the loop-variable-reuse diagnostics of visit_For, in the order of `ite`
ReuseErrors(node, ite) ==
    LET Reused(v) == v # nunderscore /\ v \in for_loop_vars
        bad == SelectSeq(ite, Reused)
    IN [i \in 1..Len(bad) |->
          [lineno |-> node.target.lineno, kind |-> "reuse", var |-> bad[i],
           in_scope |-> {}]]

\* visit_For (visit_AsyncFor delegates to it), up to the traversal of the loop
visit_For ==
    /\ work # <<>> /\ top.op = "visit" /\ top.node.k \in {"For", "AsyncFor"}
    /\ LET node == top.node
           ite == _extract_assign_vars(node.target)
           errs == ReuseErrors(node, ite)
       IN /\ _error(errs, VisitAll(Children(node))
                          \o <<[op |-> "For_end", node |-> node, ite |-> ite,
                                pre |-> scopes]>>
                          \o rest)
          /\ IF Raises(errs)
             THEN UNCHANGED <<for_loop_vars, scopes>>
             ELSE /\ for_loop_vars' = for_loop_vars \cup Range(ite)
                  /\ scopes' = Push(scopes, ite)
    /\ UNCHANGED <<files_vars, extract_vars, driver_vars, class_vars, attr_check, last_func_scope, last>>

\* what the loop `for v in ite: if v in self._for_loop_vars: remove(v)` leaves
RemoveLoopVars(registry, ite) == registry \ Range(ite)

\* visit_For after generic_visit: the scope is left, the targets leave the registry
For_end ==
    /\ Resuming("For_end")
    /\ scopes' = Pop(scopes)
    /\ for_loop_vars' = RemoveLoopVars(for_loop_vars, top.ite)
    /\ work' = rest
    /\ last' = Left(top.node, top.pre, scopes')
    /\ UNCHANGED <<files_vars, extract_vars, driver_vars, class_vars, attr_check, last_func_scope, errors, raised>>

visit_While ==
    /\ Visiting("While")
    /\ scopes' = Push(scopes, _walrus_targets(top.node))
    /\ work' = VisitAll(Children(top.node))
               \o <<[op |-> "While_end", node |-> top.node, pre |-> scopes]>>
               \o rest
    /\ UNCHANGED <<files_vars, extract_vars, driver_vars, class_vars, for_loop_vars, attr_check,
                   last_func_scope, errors, raised, last>>

While_end ==
    /\ Resuming("While_end")
    /\ scopes' = Pop(scopes)
    /\ work' = rest
    /\ last' = Left(top.node, top.pre, scopes')
    /\ UNCHANGED <<files_vars, extract_vars, driver_vars, class_vars, for_loop_vars, attr_check,
                   last_func_scope, errors, raised>>

\* set.intersection(*inherited_scope), for a non-empty list of sets
Intersection(sets) == {v \in sets[1] : \A i \in 1..Len(sets) : v \in sets[i]}

\* visit_If: the main IF, up to the traversal of node.body.  The frame
\* If_resume holds the locals of the call: current_node, walrus_vars,
\* has_else and inherited_scope.
visit_If ==
    /\ Visiting("If")
    /\ LET node == top.node
           walrus_vars == _walrus_targets(node)
       IN /\ scopes' = Push(scopes, walrus_vars)
          /\ work' = VisitAll(node.body)
                     \o <<[op |-> "If_resume", node |-> node, current_node |-> node,
                           walrus_vars |-> walrus_vars, has_else |-> FALSE,
                           inherited_scope |-> <<>>, pre |-> scopes]>>
                     \o rest
    /\ UNCHANGED <<files_vars, extract_vars, driver_vars, class_vars, for_loop_vars, attr_check,
                   last_func_scope, errors, raised, last>>

\* a visit_If that promotes the common names whether or not there is an else
PromoteCommon_ignoring_has_else(stack, has_else, inherited_scope) ==
    AddToTop(stack, Intersection(inherited_scope))

\* what visit_If does to the parent scope once the chain is over
PromoteCommon(stack, has_else, inherited_scope) ==
    IF has_else THEN AddToTop(stack, Intersection(inherited_scope)) ELSE stack

\* visit_If, from the end of a branch body: the branch's scope is copied to
\* inherited_scope and left; then `while current_node.orelse:` goes on with
\* the next branch, or the chain is over and the common names are promoted
If_resume ==
    /\ Resuming("If_resume")
    /\ LET f == top
           inherited_scope == Append(f.inherited_scope, scopes[Len(scopes)])
           parent == Pop(scopes)
       IN IF f.has_else \/ f.current_node.orelse = <<>>
          THEN \* `break` after the else block, or the loop condition is false
               /\ scopes' = PromoteCommon(parent, f.has_else, inherited_scope)
               /\ work' = rest
               /\ last' = Left(f.node, f.pre, scopes')
          ELSE IF f.current_node.orelse[1].k = "If"
          THEN \* an elif: only the body of orelse[0] is visited
               LET ifelse_node == f.current_node.orelse[1]
                   walrus_vars == f.walrus_vars \o _walrus_targets(ifelse_node)
               IN /\ scopes' = Push(parent, walrus_vars)
                  /\ work' = VisitAll(ifelse_node.body)
                             \o <<[f EXCEPT !.current_node = ifelse_node,
                                            !.walrus_vars = walrus_vars,
                                            !.inherited_scope = inherited_scope]>>
                             \o rest
                  /\ last' = last
          ELSE \* the else block
               /\ scopes' = Push(parent, f.walrus_vars)
               /\ work' = VisitAll(f.current_node.orelse)
                          \o <<[f EXCEPT !.has_else = TRUE,
                                         !.inherited_scope = inherited_scope]>>
                          \o rest
               /\ last' = last
    /\ UNCHANGED <<files_vars, extract_vars, driver_vars, class_vars, for_loop_vars, attr_check,
                   last_func_scope, errors, raised>>

\* new_vars of visit_Try for one handler
HandlerVars(handler) == IF handler.name # None THEN <<handler.name>> ELSE <<>>

\* (the handler scope, had the names of the try block been bound before the
\* handlers were visited)
HandlerScope_after_try_block(node, h, stack) ==
    Push(AddToTop(stack, UNION {AssignBinds(node.body[j]) :
                                j \in {i \in 1..Len(node.body) : node.body[i].k = "Assign"}}),
         HandlerVars(node.handlers[h]))
\* with self._scope(extra_vars=new_vars), for handler number h
HandlerScope(node, h, stack) == Push(stack, HandlerVars(node.handlers[h]))

\* (visit_Try, had it left out the finally block)
TryFrom_without_finally(node, h, stack, pre) ==
    IF h <= Len(node.handlers)
    THEN /\ scopes' = HandlerScope(node, h, stack)
         /\ work' = <<Visit(node.handlers[h]),
                      [op |-> "Try_resume", node |-> node, h |-> h + 1, pre |-> pre]>>
                    \o rest
    ELSE /\ scopes' = stack
         /\ work' = VisitAll(node.body \o node.orelse)
                    \o <<[op |-> "Try_end", node |-> node, pre |-> pre]>>
                    \o rest
\* visit_Try from handler number h on (stack: the scopes outside the handlers):
\* the handlers first, each in a scope of its own, then the try, else and
\* finally blocks in the current scope
TryFrom(node, h, stack, pre) ==
    IF h <= Len(node.handlers)
    THEN /\ scopes' = HandlerScope(node, h, stack)
         /\ work' = <<Visit(node.handlers[h]),
                      [op |-> "Try_resume", node |-> node, h |-> h + 1, pre |-> pre]>>
                    \o rest
    ELSE /\ scopes' = stack
         /\ work' = VisitAll(node.body \o node.orelse \o node.finalbody)
                    \o <<[op |-> "Try_end", node |-> node, pre |-> pre]>>
                    \o rest

visit_Try ==
    /\ Visiting("Try")
    /\ TryFrom(top.node, 1, scopes, scopes)
    /\ UNCHANGED <<files_vars, extract_vars, driver_vars, class_vars, for_loop_vars, attr_check,
                   last_func_scope, errors, raised, last>>

\* (visit_Try, had it visited the handlers without leaving their scopes)
Try_resume_keeping_scope ==
    /\ Resuming("Try_resume")
    /\ TryFrom(top.node, top.h, scopes, top.pre)
    /\ UNCHANGED <<files_vars, extract_vars, driver_vars, class_vars, for_loop_vars, attr_check,
                   last_func_scope, errors, raised, last>>
\* visit_Try, from the end of a handler: its scope is left
Try_resume ==
    /\ Resuming("Try_resume")
    /\ TryFrom(top.node, top.h, Pop(scopes), top.pre)
    /\ UNCHANGED <<files_vars, extract_vars, driver_vars, class_vars, for_loop_vars, attr_check,
                   last_func_scope, errors, raised, last>>

\* visit_Try returns
Try_end ==
    /\ Resuming("Try_end")
    /\ work' = rest
    /\ last' = Left(top.node, top.pre, scopes)
    /\ UNCHANGED <<files_vars, extract_vars, driver_vars, class_vars, scopes, for_loop_vars, attr_check,
                   last_func_scope, errors, raised>>

\* (an augmented assignment that binds its target after the lookup)
visit_AugAssign_binding_the_target ==
    /\ Visiting("AugAssign")
    /\ LET vs == _extract_assign_vars(top.node.target)
           Missing(v) == ~InScope(scopes, v)
           bad == SelectSeq(vs, Missing)
       IN /\ _error([i \in 1..Len(bad) |-> _check_in_scope(top.node, bad[i])[1]],
                    VisitAll(Children(top.node)) \o rest)
          /\ scopes' = AddToTop(scopes, Range(vs))
    /\ UNCHANGED <<files_vars, extract_vars, driver_vars, class_vars, for_loop_vars, attr_check,
                   last_func_scope, last>>
\* visit_AugAssign: the target's names are looked up, nothing is bound
visit_AugAssign ==
    /\ Visiting("AugAssign")
    /\ LET vs == _extract_assign_vars(top.node.target)
           Missing(v) == ~InScope(scopes, v)
           bad == SelectSeq(vs, Missing)
       IN _error([i \in 1..Len(bad) |-> _check_in_scope(top.node, bad[i])[1]],
                 VisitAll(Children(top.node)) \o rest)
    /\ UNCHANGED <<files_vars, extract_vars, driver_vars, class_vars, scopes, for_loop_vars, attr_check,
                   last_func_scope, last>>

\* visit_AnnAssign: the target is bound; nothing is visited
visit_AnnAssign ==
    /\ Visiting("AnnAssign")
    /\ scopes' = AddToTop(scopes, Range(_extract_assign_vars(top.node.target)))
    /\ work' = rest
    /\ UNCHANGED <<files_vars, extract_vars, driver_vars, class_vars, for_loop_vars, attr_check,
                   last_func_scope, errors, raised, last>>

\* `for g in node.generators: for cond in g.ifs`
RECURSIVE AllIfs(_)
AllIfs(generators) ==
    IF generators = <<>> THEN <<>>
    ELSE Head(generators).ifs \o AllIfs(Tail(generators))

\* visit_ListComp (visit_SetComp delegates to it), up to the end of the visits
visit_ListComp ==
    /\ work # <<>> /\ top.op = "visit" /\ top.node.k \in {"ListComp", "SetComp"}
    /\ scopes' = Push(scopes, _extract_comprehension_vars(top.node))
    /\ work' = <<Visit(top.node.elt)>> \o VisitAll(AllIfs(top.node.generators))
               \o <<[op |-> "Comp_end", node |-> top.node, pre |-> scopes]>>
               \o rest
    /\ UNCHANGED <<files_vars, extract_vars, driver_vars, class_vars, for_loop_vars, attr_check,
                   last_func_scope, errors, raised, last>>

visit_DictComp ==
    /\ Visiting("DictComp")
    /\ scopes' = Push(scopes, _extract_comprehension_vars(top.node))
    /\ work' = <<Visit(top.node.key), Visit(top.node.value)>>
               \o VisitAll(AllIfs(top.node.generators))
               \o <<[op |-> "Comp_end", node |-> top.node, pre |-> scopes]>>
               \o rest
    /\ UNCHANGED <<files_vars, extract_vars, driver_vars, class_vars, for_loop_vars, attr_check,
                   last_func_scope, errors, raised, last>>

\* a comprehension handler returns: its scope is left
Comp_end ==
    /\ Resuming("Comp_end")
    /\ scopes' = Pop(scopes)
    /\ work' = rest
    /\ last' = Left(top.node, top.pre, scopes')
    /\ UNCHANGED <<files_vars, extract_vars, driver_vars, class_vars, for_loop_vars, attr_check,
                   last_func_scope, errors, raised>>

\* visit_ClassDef: a class met during the traversal
visit_ClassDef ==
    /\ Visiting("ClassDef")
    /\ work' = IF _decorated_to_skip_checking(top.node) THEN rest
               ELSE VisitAll(Children(top.node)) \o rest
    /\ UNCHANGED <<files_vars, extract_vars, driver_vars, class_vars, scopes, for_loop_vars, attr_check,
                   last_func_scope, errors, raised, last>>

RECURSIVE WithVars(_)
\* new_vars of visit_With: the names of the optional_vars of all the items
WithVars(items) ==
    IF items = <<>> THEN <<>>
    ELSE (IF Head(items).optional_vars # <<>>
          THEN _extract_assign_vars(Head(items).optional_vars[1]) ELSE <<>>)
         \o WithVars(Tail(items))
\* (any call, as a context expression, opens a scope)
IsBlockScope_for_any_call(node) ==
    LET context_expr == node.items[1].context_expr
    IN context_expr.k = "Call"
\* the context expression of the first item is a call of the name block_scope
IsBlockScope(node) ==
    LET context_expr == node.items[1].context_expr
    IN /\ context_expr.k = "Call"
       /\ context_expr.func.k = "Name"
       /\ context_expr.func.id = block_scope_name

\* visit_With, up to the traversal of the statement
visit_With ==
    /\ Visiting("With")
    /\ scopes' = IF IsBlockScope(top.node) THEN Push(scopes, WithVars(top.node.items))
                 ELSE AddToTop(scopes, Range(WithVars(top.node.items)))
    /\ work' = VisitAll(Children(top.node))
               \o <<[op |-> "With_end", node |-> top.node, pre |-> scopes,
                     scoped |-> IsBlockScope(top.node)]>>
               \o rest
    /\ UNCHANGED <<files_vars, extract_vars, driver_vars, class_vars, for_loop_vars, attr_check,
                   last_func_scope, errors, raised, last>>

\* visit_With returns; the scope of a block_scope() statement is left
With_end ==
    /\ Resuming("With_end")
    /\ scopes' = IF top.scoped THEN Pop(scopes) ELSE scopes
    /\ work' = rest
    /\ last' = Left(top.node, top.pre, scopes')
    /\ UNCHANGED <<files_vars, extract_vars, driver_vars, class_vars, for_loop_vars, attr_check,
                   last_func_scope, errors, raised>>

(***************************************************************************)
(* The class analyzer's helpers                                            *)
(***************************************************************************)
IsFunc(item) == item.k \in {"FunctionDef", "AsyncFunctionDef"}

RECURSIVE walk(_)
\* ast.walk: the node and all its descendants
walk(node) == {node} \cup UNION {walk(c) : c \in Range(Children(node))}

\* the names one node of a method contributes to _extract_self_assignments
SelfAssignmentsOf(node) ==
    {v \in (CASE node.k = "Assign" -> AssignBinds(node)
              [] node.k = "AnnAssign" -> Range(_extract_assign_vars(node.target))
              [] node.k = "NamedExpr" /\ node.target.k = "Attribute" ->
                    Range(_extract_assign_vars(node.target))
              [] OTHER -> {}) : StartsWithSelfDot(v)}
\* _extract_self_assignments: the self.<attr> targets of the assignments found
\* anywhere in the methods of the class
_extract_self_assignments(class_ast) ==
    UNION {UNION {SelfAssignmentsOf(n) : n \in walk(class_ast.body[i])} :
           i \in {j \in 1..Len(class_ast.body) : IsFunc(class_ast.body[j])}}

\* _init_calls_any_method
_init_calls_any_method(class_ast) ==
    LET body == class_ast.body
        method_names == {body[i].name : i \in {j \in 1..Len(body) : IsFunc(body[j])}}
        inits == {i \in 1..Len(body) : IsFunc(body[i]) /\ body[i].name = ninit}
    IN IF inits = {} THEN FALSE
       ELSE LET init_method == body[CHOOSE i \in inits : \A j \in inits : i <= j]
            IN \E n \in walk(init_method) :
                  /\ n.k = "Call"
                  /\ n.func.k = "Attribute"
                  /\ n.func.value.k = "Name"
                  /\ n.func.value.id = nself
                  /\ n.func.attr \in method_names

\* class_level_vars of _check_class: the Name targets of the class-level
\* assignments and annotated assignments
class_level_vars(class_ast) ==
    UNION {IF class_ast.body[i].k = "Assign"
           THEN {class_ast.body[i].targets[t].id :
                 t \in {u \in 1..Len(class_ast.body[i].targets) :
                        class_ast.body[i].targets[u].k = "Name"}}
           ELSE IF class_ast.body[i].k = "AnnAssign" /\ class_ast.body[i].target.k = "Name"
           THEN {class_ast.body[i].target.id}
           ELSE {} : i \in 1..Len(class_ast.body)}

RECURSIVE dict_of(_)
\* method_nodes of _check_class, a dict filled in the order of the class body:
\* a key keeps the position of its first insertion and the value of its last
dict_of(items) ==
    IF items = <<>> THEN <<>>
    ELSE LET d == dict_of(SubSeq(items, 1, Len(items) - 1))
             it == items[Len(items)]
             at == {i \in 1..Len(d) : d[i].name = it.name}
         IN IF at = {} THEN Append(d, it)
            ELSE [i \in 1..Len(d) |-> IF i \in at THEN it ELSE d[i]]
MethodNodes(class_ast) ==
    LET IsSync(item) == item.k = "FunctionDef"
    IN dict_of(SelectSeq(class_ast.body, IsSync))

\* method_nodes.get('__init__'): <<>> for None
InitMethod(methods) ==
    LET IsInit(m) == m.name = ninit
    IN SelectSeq(methods, IsInit)

\* scope_vars += class_level_vars; scope_vars += [f"self.{m}" ...]: the list
\* the caller passed is extended in place
ClassScopeVars(scope_vars, class_ast) ==
    scope_vars \cup class_level_vars(class_ast)
               \cup {SelfAttr(MethodNodes(class_ast)[i].name) :
                     i \in 1..Len(MethodNodes(class_ast))}

\* obj_attrs once the constructor has been checked (vars_in_scope: its
\* last_func_scope) and _init_calls_any_method has been consulted
AttrsAfterInit(attrs, vars_in_scope, sub_class, class_ast) ==
    attrs \cup {a \in vars_in_scope : StartsWithSelfDot(a)}
          \cup (IF ~sub_class /\ _init_calls_any_method(class_ast)
                THEN _extract_self_assignments(class_ast) ELSE {})

(***************************************************************************)
(* The drivers: check_file (batch mode), block_scoping (strict mode),      *)
(* _check_func and _check_class                                            *)
(***************************************************************************)
\* check_file: the names visible to every unit of the file (function and
\* class names, module-level assignment targets; the inputs import nothing)
ModuleVars(body) ==
    UNION {IF IsFunc(body[i]) \/ body[i].k = "ClassDef" THEN {body[i].name}
           ELSE IF body[i].k = "Assign" THEN AssignBinds(body[i])
           ELSE {} : i \in 1..Len(body)}

\* _check_func up to checker.visit(func_ast): a fresh ScopeChecker
_check_func(func_ast, scope_vars, check_attrs, attrs) ==
    /\ scopes' = <<scope_vars \cup Builtins \cup attrs>>
    /\ for_loop_vars' = {}
    /\ attr_check' = check_attrs
    /\ last_func_scope' = {}
    /\ errors' = <<>>
    /\ work' = <<Visit(func_ast)>>

\* _check_class up to the check of the constructor, or, without one, up to
\* the loop over the other methods
_check_class(class_ast) ==
    LET methods == MethodNodes(class_ast)
        scope_vars == ClassScopeVars(vars, class_ast)
        attrs == {SelfAttr(v) : v \in class_level_vars(class_ast)}
        sub_class == class_ast.bases # <<>>
    IN /\ is_sub_class' = sub_class
       /\ method_nodes' = methods
       /\ vars' = scope_vars
       /\ cls_errors' = <<>>
       /\ mi' = 1
       /\ IF InitMethod(methods) # <<>>
          THEN /\ _check_func(InitMethod(methods)[1], scope_vars, FALSE, {})
               /\ obj_attrs' = attrs
               /\ pc' = "class_init"
          ELSE /\ obj_attrs' = AttrsAfterInit(attrs, {}, sub_class, class_ast)
               /\ pc' = "class_methods"
               /\ UNCHANGED <<scopes, for_loop_vars, attr_check, last_func_scope,
                              errors, work>>

Idle == work = <<>> /\ ~raised

\* check_file: one turn of `for node in tree.body` (the second loop)
check_file ==
    /\ pc = "check_file" /\ filename # None /\ Idle
    /\ IF idx > Len(units)
       THEN /\ pc' = "done"
            /\ UNCHANGED <<idx, vars, class_vars, scopes, for_loop_vars, attr_check,
                           last_func_scope, errors, work>>
       ELSE IF IsFunc(units[idx])
       THEN /\ _check_func(units[idx], vars, FALSE, {})
            /\ pc' = "func"
            /\ UNCHANGED <<idx, vars, class_vars>>
       ELSE IF units[idx].k = "ClassDef"
       THEN /\ _check_class(units[idx])
            /\ idx' = idx
       ELSE /\ idx' = idx + 1
            /\ UNCHANGED <<pc, vars, class_vars, scopes, for_loop_vars, attr_check,
                           last_func_scope, errors, work>>
    /\ UNCHANGED <<files_vars, extract_vars, filename, units, module_globals, all_errors, raised, last>>

\* block_scoping: the decorated function or class is checked in strict mode
block_scoping ==
    /\ pc = "block_scoping" /\ filename = None /\ Idle
    /\ IF units[idx].k = "ClassDef"
       THEN _check_class(units[idx])
       ELSE /\ _check_func(units[idx], vars, FALSE, {})
            /\ pc' = "func"
            /\ UNCHANGED <<vars, class_vars>>
    /\ UNCHANGED <<files_vars, extract_vars, filename, units, module_globals, idx, all_errors, raised, last>>

\* _check_func returns to check_file (all_errors += errors) or to block_scoping
func_return ==
    /\ pc = "func" /\ Idle
    /\ all_errors' = all_errors \o errors
    /\ idx' = idx + 1
    /\ pc' = IF filename = None THEN "done" ELSE "check_file"
    /\ UNCHANGED <<files_vars, extract_vars, filename, units, module_globals, vars, class_vars, checker_vars, last>>

\* _check_class, from the return of the constructor's check
class_init_return ==
    /\ pc = "class_init" /\ Idle
    /\ obj_attrs' = AttrsAfterInit(obj_attrs, last_func_scope, is_sub_class, units[idx])
    /\ cls_errors' = cls_errors \o errors
    /\ pc' = "class_methods"
    /\ UNCHANGED <<files_vars, extract_vars, filename, units, module_globals, idx, vars, all_errors,
                   is_sub_class, method_nodes, mi, checker_vars, last>>

\* _check_class: one turn of `for method_name, method_ast in method_nodes.items()`,
\* and, after the last one, the return to the driver
class_methods ==
    /\ pc = "class_methods" /\ Idle
    /\ IF mi > Len(method_nodes)
       THEN /\ all_errors' = all_errors \o cls_errors
            /\ idx' = idx + 1
            /\ pc' = IF filename = None THEN "done" ELSE "check_file"
            /\ UNCHANGED <<mi, checker_vars>>
       ELSE IF method_nodes[mi].name # ninit
       THEN /\ _check_func(method_nodes[mi], vars, ~is_sub_class, obj_attrs)
            /\ pc' = "class_method"
            /\ UNCHANGED <<idx, all_errors, mi, raised>>
       ELSE /\ mi' = mi + 1
            /\ UNCHANGED <<pc, idx, all_errors, checker_vars>>
    /\ UNCHANGED <<files_vars, extract_vars, filename, units, module_globals, vars, is_sub_class, method_nodes,
                   obj_attrs, cls_errors, last>>

\* _check_class, from the return of a method's check
class_method_return ==
    /\ pc = "class_method" /\ Idle
    /\ cls_errors' = cls_errors \o errors
    /\ mi' = mi + 1
    /\ pc' = "class_methods"
    /\ UNCHANGED <<files_vars, extract_vars, filename, units, module_globals, idx, vars, all_errors,
                   is_sub_class, method_nodes, obj_attrs, checker_vars, last>>

(***************************************************************************)
(* Inputs                                                                  *)
(***************************************************************************)
\* shorthands for the statements the inputs are made of
Asg(id) == Assign(<<Store(id, 0)>>, Constant)
Use(id, lineno) == Expr(Load(id, lineno))
Self == Load(nself, 0)
SetAttr(attr) == Assign(<<Attribute(Self, attr, "Store", 0)>>, Constant)
UseAttr(attr, lineno) == Expr(Attribute(Self, attr, "Load", lineno))
CallSelf(attr) == Expr(Call(Attribute(Self, attr, "Load", 0), <<>>))
Def(name, body) == FunctionDef(name, Arguments(<<>>), body, <<>>)
Method(name, body) == FunctionDef(name, Arguments(<<nself>>), body, <<>>)
Cond == Load(nc, 0)
Walrus(id) == NamedExpr(Store(id, 0), Constant)

Batch(body) == [filename |-> BatchFile, units |-> body, module_globals |-> {}]
Strict(unit) == [filename |-> None, units |-> <<unit>>, module_globals |-> {nc, ns}]

\* a function and a class that use every construct of the model once
CoreFunction ==
    Def(nf, <<
        Asg(nx),
        For(Store(ni, 2), Load(ns, 2), <<Use(ni, 3), Use(nx, 3)>>),
        While(Walrus(ny), <<Use(ny, 5)>>),
        If(Cond, <<Asg(nz)>>, <<Asg(nz)>>),
        Try(<<Asg(na)>>, <<ExceptHandler(<<Load(nException, 9)>>, ne, <<Use(ne, 10)>>)>>,
            <<>>, <<Use(na, 12)>>),
        Expr(Call(Load(nprint, 13), <<Load(nz, 13), Load(ni, 13)>>)),
        AugAssign(Store(nx, 14), Constant, 14),
        AnnAssign(Store(nv, 15), Load(nprint, 15), <<Load(nb, 15)>>),
        Expr(ListComp(Load(ni, 16),
                      <<comprehension(Store(ni, 16), Load(ns, 16), <<Load(nx, 16)>>)>>)),
        Expr(DictComp(Load(ni, 17), Load(nj, 17),
                      <<comprehension(Tuple(<<Store(ni, 17), Store(nj, 17)>>, 17),
                                      Load(ns, 17), <<>>)>>)),
        With(<<withitem(Call(Load(nprint, 18), <<>>), <<Store(nm, 18)>>)>>,
             <<ClassDef(nA, <<>>, <<Asg(nv)>>), Use(nm, 19)>>),
        Expr(Lambda(Arguments(<<nj>>), Load(nj, 20)))
    >>)
CoreClass ==
    ClassDef(nA, <<>>, <<
        Method(ninit, <<SetAttr(na)>>),
        Method(nm, <<UseAttr(na, 5), UseAttr(nb, 6)>>)
    >>)
CoreInputs ==
    {Batch(<<Asg(nc), Asg(ns), CoreFunction, CoreClass>>), Strict(CoreFunction),
     Strict(CoreClass)}

(* if/elif/else chains: every chain of at most MaxElif elif branches whose
   conditions and bodies are drawn from the sets below, followed by a read of
   each name the chain may bind *)
MaxElif == 1
IfTests == {Cond, Walrus(ny)}
IfBodies(b) ==
    {<<Pass>>,
     <<Asg(nx)>>,
     <<Asg(ny), Use(nx, 10 * b)>>,
     <<If(Cond, <<Asg(nx)>>, <<Asg(nx)>>)>>}
\* else blocks: also those that begin with an if statement and go on after it
ElseBodies(b) ==
    IfBodies(b) \cup {<<If(Cond, <<Asg(nx)>>, <<>>), Asg(nx), Use(nz, 10 * b + 1)>>}
RECURSIVE IfChains(_, _)
IfChains(b, elifs) ==
    {If(test, body, orelse) :
        test \in IfTests, body \in IfBodies(b),
        orelse \in {<<>>} \cup ElseBodies(b + 1)
                   \cup (IF elifs > 0 THEN {<<c>> : c \in IfChains(b + 1, elifs - 1)}
                         ELSE {})}
IfInputs ==
    {Batch(<<Asg(nc), Def(nf, <<chain, Use(nx, 90), Use(ny, 91)>>)>>) :
        chain \in IfChains(1, MaxElif)}

Inputs == CoreInputs \cup IfInputs

(***************************************************************************)
(* The specification                                                       *)
(***************************************************************************)
NothingLeft == Left([k |-> "None"], <<>>, <<>>)

InitWith(inputs) ==
    /\ \E input \in inputs :
          /\ filename = input.filename
          /\ units = input.units
          /\ module_globals = input.module_globals
          /\ vars = IF input.filename = None THEN input.module_globals
                    ELSE ModuleVars(input.units)
          /\ pc = IF input.filename = None THEN "block_scoping" ELSE "check_file"
    /\ idx = 1
    /\ all_errors = <<>>
    /\ is_sub_class = FALSE
    /\ method_nodes = <<>>
    /\ obj_attrs = {}
    /\ cls_errors = <<>>
    /\ mi = 1
    /\ scopes = <<>>
    /\ for_loop_vars = {}
    /\ attr_check = FALSE
    /\ last_func_scope = {}
    /\ errors = <<>>
    /\ work = <<>>
    /\ raised = FALSE
    /\ last = NothingLeft
    /\ assign_target = [k |-> "None"]
    /\ leaf_names = <<>>
    /\ result = {}
    /\ file_paths = <<>>
    /\ exclude = {}
    /\ path_i = 1
    /\ pending = <<>>
    /\ proc_errors = <<>>
    /\ proc_pc = "idle"

Init == InitWith(Inputs)

Next ==
    \/ check_file
    \/ block_scoping
    \/ func_return
    \/ class_init_return
    \/ class_methods
    \/ class_method_return
    \/ generic_visit
    \/ visit_Name
    \/ visit_Attribute
    \/ visit_Assign
    \/ visit_NamedExpr
    \/ visit_FunctionDef
    \/ FunctionDef_end
    \/ visit_Lambda
    \/ Lambda_end
    \/ visit_For
    \/ For_end
    \/ visit_While
    \/ While_end
    \/ visit_If
    \/ If_resume
    \/ visit_Try
    \/ Try_resume
    \/ Try_end
    \/ visit_AugAssign
    \/ visit_AnnAssign
    \/ visit_ListComp
    \/ visit_DictComp
    \/ Comp_end
    \/ visit_ClassDef
    \/ visit_With
    \/ With_end

Spec == Init /\ [][Next]_all_vars

\* the same program, checked on the if/elif/else chains
SpecIf == InitWith(CoreInputs \cup IfInputs) /\ [][Next]_all_vars

(***************************************************************************)
(* What the claims speak of                                                *)
(***************************************************************************)
\* a diagnostic of this kind, for this name at this line, is in the result
\* of check_file
Reported(lineno, kind, v) ==
    \E i \in 1..Len(all_errors) :
        /\ all_errors[i].lineno = lineno
        /\ all_errors[i].kind = kind
        /\ all_errors[i].var = v

IsRead(stmt) == stmt.k = "Expr" /\ stmt.value.k = "Name" /\ stmt.value.ctx = "Load"

\* the identifiers bound in no scope that exists when a function body starts
Unbound(func, v) ==
    /\ v \notin vars \cup Builtins \cup Range(arg_names(func)) \cup {func.name}
    /\ ~builtin_var_match(v)

RECURSIVE HasTerminalElse(_)
\* the chain ends with an else block (an orelse made of one if statement
\* is an elif)
HasTerminalElse(node) ==
    IF node.orelse = <<>> THEN FALSE
    ELSE IF Len(node.orelse) = 1 /\ node.orelse[1].k = "If"
    THEN HasTerminalElse(node.orelse[1])
    ELSE TRUE

RECURSIVE BranchBodies(_)
\* the branch bodies of a chain: the if body, the elif bodies, the else body
BranchBodies(node) ==
    <<node.body>> \o
    (IF node.orelse = <<>> THEN <<>>
     ELSE IF Len(node.orelse) = 1 /\ node.orelse[1].k = "If"
     THEN BranchBodies(node.orelse[1])
     ELSE <<node.orelse>>)

RECURSIVE BodyBinds(_, _)
\* a block binds v in its own scope: it assigns v, or it holds a chain with a
\* terminal else all of whose branch bodies bind v
BodyBinds(body, v) ==
    \E i \in 1..Len(body) :
        \/ body[i].k = "Assign" /\ v \in AssignBinds(body[i])
        \/ /\ body[i].k = "If"
           /\ HasTerminalElse(body[i])
           /\ \A j \in 1..Len(BranchBodies(body[i])) :
                 BodyBinds(BranchBodies(body[i])[j], v)

RECURSIVE ChainConditions(_)
\* the conditions of a chain
ChainConditions(node) ==
    <<node.test>> \o
    (IF Len(node.orelse) = 1 /\ node.orelse[1].k = "If"
     THEN ChainConditions(node.orelse[1]) ELSE <<>>)

ClaimNames == {nx, ny, nz}

(***************************************************************************)
(* C1                                                                      *)
(***************************************************************************)
\* the names the conditions of a chain bind (assignment expressions)
ConditionNames(node) ==
    UNION {Range(WalrusVisitor_visit(ChainConditions(node)[j])) :
           j \in 1..Len(ChainConditions(node))}

\* C1: once a chain with a terminal else has been visited, a name that was
\* not visible before the chain is visible after it if and only if every
\* branch body of the chain binds it.  (Stated for the names that no
\* condition of the chain binds: the bodies alone decide for them.)
C1_VisibleIffEveryBranchBinds ==
    (last.node.k = "If" /\ HasTerminalElse(last.node)) =>
        \A v \in ClaimNames \ ConditionNames(last.node) :
            ~InScope(last.pre, v) =>
                (InScope(last.post, v) <=>
                    \A j \in 1..Len(BranchBodies(last.node)) :
                        BodyBinds(BranchBodies(last.node)[j], v))

(***************************************************************************)
(* C2                                                                      *)
(***************************************************************************)
\* C2: a chain without a terminal else leaves the scope stack as it found it,
\* and when such a chain opens a function body and only reads follow it,
\* every read of a name that nothing binds outside the chain is reported.
C2_NoElseNothingPromoted ==
    /\ (last.node.k = "If" /\ ~HasTerminalElse(last.node)) => last.post = last.pre
    /\ (pc = "done" /\ filename # None) =>
          \A u \in 1..Len(units) :
              (/\ IsFunc(units[u])
               /\ ~_decorated_to_skip_checking(units[u])
               /\ units[u].body[1].k = "If"
               /\ ~HasTerminalElse(units[u].body[1])
               /\ \A j \in 2..Len(units[u].body) : IsRead(units[u].body[j]))
              => \A j \in 2..Len(units[u].body) :
                    Unbound(units[u], units[u].body[j].value.id) =>
                        Reported(units[u].body[j].value.lineno, "unresolved",
                                 units[u].body[j].value.id)

\* a chain without else has just been left; one of its bodies binds x and one
\* of its conditions binds y
C2_Witness ==
    /\ last.node.k = "If"
    /\ ~HasTerminalElse(last.node)
    /\ \E j \in 1..Len(BranchBodies(last.node)) : BodyBinds(BranchBodies(last.node)[j], nx)
    /\ ny \in ConditionNames(last.node)
    /\ Len(BranchBodies(last.node)) >= 2
    /\ ~InScope(last.post, nx)
    /\ ~InScope(last.post, ny)


(***************************************************************************)
(* C3                                                                      *)
(***************************************************************************)
(* straight-line function bodies: at most MaxStmts statements, the one at
   position j on line j, each an assignment, a read or an assignment
   expression; in such a statement every read is evaluated before the
   statement binds anything *)
MaxStmts == 3
StmtsAt(j) ==
    {Asg(nx),
     Use(nx, j),
     Use(ny, j),
     Assign(<<Store(nx, j)>>, BinOp(Load(nx, j), Constant)),
     Assign(<<Store(ny, j)>>, Load(nx, j)),
     Expr(NamedExpr(Store(ny, j), Load(ny, j)))}
RECURSIVE StraightLines(_)
StraightLines(n) ==
    IF n = 0 THEN {<<>>}
    ELSE StraightLines(n - 1) \cup
         {Append(body, stmt) : body \in {b \in StraightLines(n - 1) : Len(b) = n - 1},
                               stmt \in StmtsAt(n)}
AssignInputs ==
    {Batch(<<Asg(nc), Def(nf, body)>>) : body \in StraightLines(MaxStmts) \ {<<>>}}

SpecAssign == InitWith(CoreInputs \cup AssignInputs) /\ [][Next]_all_vars

IsStraightLine(stmt) ==
    \/ stmt.k = "Assign" /\ \A n \in walk(stmt) : n.k # "NamedExpr"
    \/ stmt.k = "Expr" /\ stmt.value.k = "Name"
    \/ stmt.k = "Expr" /\ stmt.value.k = "NamedExpr"
          /\ \A n \in walk(stmt.value.value) : n.k # "NamedExpr"
\* the names a straight-line statement reads, and the names it binds
ReadsOf(stmt) == {n \in walk(stmt) : n.k = "Name" /\ n.ctx = "Load"}
BindsOf(stmt) ==
    IF stmt.k = "Assign" THEN AssignBinds(stmt)
    ELSE {n.target.id : n \in {m \in walk(stmt) : m.k = "NamedExpr"}}

\* C3: in the body of a checked function made of straight-line statements,
\* every read of a name that nothing outside the function binds and that no
\* earlier statement of the body has assigned is reported as unresolved, be
\* it in a statement of its own or in the value of the assignment that first
\* binds the name.
C3_ReadBeforeAssignmentReported ==
    (pc = "done" /\ filename # None) =>
        \A u \in 1..Len(units) :
            (/\ IsFunc(units[u])
             /\ ~_decorated_to_skip_checking(units[u])
             /\ \A j \in 1..Len(units[u].body) : IsStraightLine(units[u].body[j]))
            => \A j \in 1..Len(units[u].body) :
                  \A n \in ReadsOf(units[u].body[j]) :
                      (/\ Unbound(units[u], n.id)
                       /\ \A q \in 1..(j - 1) : n.id \notin BindsOf(units[u].body[q]))
                      => Reported(n.lineno, "unresolved", n.id)


(***************************************************************************)
(* C4                                                                      *)
(***************************************************************************)
(* loops: a function body made of an optional assignment, one for or while
   loop nested at most MaxLoopDepth deep, and a read of every name the loop
   may bind *)
MaxLoopDepth == 1
LoopBaseBodies ==
    {<<Asg(nx)>>,
     <<Asg(nz), Use(nz, 3)>>,
     <<If(Cond, <<Asg(nz)>>, <<Asg(nz)>>)>>}
RECURSIVE Loops(_)
Loops(d) ==
    LET bodies == LoopBaseBodies \cup
                  (IF d > 0 THEN {<<loop>> : loop \in Loops(d - 1)} ELSE {})
    IN {For(target, Load(ns, 2 + d), body) :
            target \in {Store(ni, 2 + d),
                        Tuple(<<Store(ni, 2 + d), Store(nj, 2 + d)>>, 2 + d)},
            body \in bodies}
       \cup {While(test, body) : test \in {Cond, Walrus(ny)}, body \in bodies}
LoopReads == <<Use(ni, 90), Use(nj, 91), Use(nx, 92), Use(ny, 93), Use(nz, 94)>>
LoopInputs ==
    {Batch(<<Asg(nc), Asg(ns), Def(nf, before \o <<loop>> \o LoopReads)>>) :
        before \in {<<>>, <<Asg(nx)>>, <<Asg(ni)>>},
        loop \in Loops(MaxLoopDepth)}

SpecLoop == InitWith(CoreInputs \cup LoopInputs) /\ [][Next]_all_vars

IsLoop(stmt) == stmt.k \in {"For", "While"}
\* a body made of assignments, then one loop, then reads: the position of
\* the loop
LoopAt(body, p) ==
    /\ p \in 1..Len(body)
    /\ IsLoop(body[p])
    /\ \A j \in 1..(p - 1) : body[j].k = "Assign"
    /\ \A j \in (p + 1)..Len(body) : IsRead(body[j])
BoundBefore(body, p) == UNION {AssignBinds(body[j]) : j \in 1..(p - 1)}

\* C4: a loop leaves the scope stack as it found it; when a function body is
\* made of assignments, one loop and reads, a read after the loop of a name
\* that only the loop binds (a target, or a name bound in its body) is
\* reported, and a read of a name assigned before the loop is not.
C4_LoopLeavesNothingBehind ==
    /\ IsLoop(last.node) => last.post = last.pre
    /\ (pc = "done" /\ filename # None) =>
          \A u \in 1..Len(units) :
              (IsFunc(units[u]) /\ ~_decorated_to_skip_checking(units[u])) =>
                  \A p \in 1..Len(units[u].body) :
                      LoopAt(units[u].body, p) =>
                          \A j \in (p + 1)..Len(units[u].body) :
                              LET n == units[u].body[j].value
                              IN IF n.id \in BoundBefore(units[u].body, p)
                                 THEN ~Reported(n.lineno, "unresolved", n.id)
                                 ELSE Unbound(units[u], n.id) =>
                                          Reported(n.lineno, "unresolved", n.id)

\* a for loop with two targets whose body binds x has been checked in a
\* function that assigns x before the loop: the reads of the targets after
\* the loop are reported, the read of x is not
C4_Witness ==
    /\ pc = "done"
    /\ filename # None
    /\ \E u \in 1..Len(units) :
          /\ IsFunc(units[u])
          /\ LoopAt(units[u].body, 2)
          /\ units[u].body[1] = Asg(nx)
          /\ units[u].body[2].k = "For"
          /\ units[u].body[2].target.k = "Tuple"
          /\ units[u].body[2].body = <<Asg(nx)>>
    /\ Reported(90, "unresolved", ni)
    /\ Reported(91, "unresolved", nj)
    /\ ~Reported(92, "unresolved", nx)
    /\ Reported(94, "unresolved", nz)

(***************************************************************************)
(* C5                                                                      *)
(***************************************************************************)
(* nests of for loops at most MaxNest deep: a loop holds nothing, one loop,
   or two sibling loops; the loop at position p of the loop on line l is on
   line 10 * l + p *)
MaxNest == 2
NestTargets == {ni, nj, nunderscore}
RECURSIVE Nests(_, _)
Nests(d, line) ==
    LET bodies == {<<Pass>>}
                  \cup (IF d > 0
                        THEN {<<loop>> : loop \in Nests(d - 1, 10 * line + 1)}
                             \cup {<<a, b>> : a \in Nests(0, 10 * line + 1),
                                              b \in Nests(0, 10 * line + 2)}
                        ELSE {})
    IN {For(Store(t, line), Load(ns, line), body) : t \in NestTargets, body \in bodies}
NestInputs ==
    {Batch(<<Asg(nc), Asg(ns), Def(nf, <<nest>>)>>) : nest \in Nests(MaxNest, 1)}
    \cup {Batch(<<Asg(nc), Asg(ns), Def(nf, <<a, b>>)>>) :
              a \in Nests(0, 1), b \in Nests(0, 2)}

SpecNest == InitWith(CoreInputs \cup NestInputs) /\ [][Next]_all_vars

RECURSIVE IsNest(_)
\* a block made of for loops and pass statements only
IsNest(body) ==
    \A j \in 1..Len(body) :
        \/ body[j].k = "Pass"
        \/ body[j].k = "For" /\ IsNest(body[j].body)

RECURSIVE ReusesIn(_, _)
\* the loops of a block that take as a target a name, other than `_`, that
\* is a target of a loop around them: <<line of the loop, name>>
ReusesIn(body, enclosing) ==
    UNION {IF body[j].k # "For" THEN {}
           ELSE LET targets == Range(_extract_assign_vars(body[j].target))
                IN {<<body[j].target.lineno, v>> :
                        v \in (targets \cap enclosing) \ {nunderscore}}
                   \cup ReusesIn(body[j].body, enclosing \cup targets)
           : j \in 1..Len(body)}

\* C5: when a function body made of for loops has been checked, the
\* loop-variable-reuse diagnostics are exactly those of the loops that take
\* a target, other than `_`, of a loop that encloses them.
C5_ReuseReportedAtAnyDepth ==
    (pc = "done" /\ filename # None) =>
        \A u \in 1..Len(units) :
            (/\ IsFunc(units[u])
             /\ ~_decorated_to_skip_checking(units[u])
             /\ IsNest(units[u].body))
            => {<<all_errors[e].lineno, all_errors[e].var>> :
                    e \in {i \in 1..Len(all_errors) : all_errors[i].kind = "reuse"}}
               = ReusesIn(units[u].body, {})


(***************************************************************************)
(* C6, C7, C8                                                              *)
(***************************************************************************)
(* try statements: a function body made of one try statement with at most
   MaxHandlers handlers, and a read of every name the statement may bind.
   Handler number h has its statements on the lines 10 * h + 1 .. 10 * h + 6 *)
MaxHandlers == 2
HandlersAt(h) ==
    {ExceptHandler(<<Load(nException, 10 * h)>>, ne,
                   <<Asg(ny), Use(ny, 10 * h + 1), Use(ne, 10 * h + 2)>>),
     ExceptHandler(<<>>, None,
                   <<Use(ne, 10 * h + 2), Use(nx, 10 * h + 3), Use(ny, 10 * h + 4),
                     Use(nz, 10 * h + 5)>>),
     ExceptHandler(<<Load(nException, 10 * h)>>, ne,
                   <<Use(nx, 10 * h + 3), Asg(nx), Use(nx, 10 * h + 6)>>)}
RECURSIVE HandlerLists(_)
HandlerLists(n) ==
    IF n = 0 THEN {<<>>}
    ELSE HandlerLists(n - 1) \cup
         {Append(hs, h) : hs \in {l \in HandlerLists(n - 1) : Len(l) = n - 1},
                          h \in HandlersAt(n)}
\* a try statement has a handler or a finally block; an else block needs a handler
TryStatements ==
    {Try(body, handlers, orelse, finalbody) :
        body \in {<<Asg(nx), Use(nx, 1)>>, <<Use(nx, 1)>>},
        handlers \in HandlerLists(MaxHandlers),
        orelse \in {<<>>, <<Use(nx, 50), Asg(nz)>>},
        finalbody \in {<<>>, <<Use(nx, 60), Use(nz, 61), Asg(na)>>}}
TryReads == <<Use(nx, 90), Use(ny, 91), Use(nz, 92), Use(ne, 93), Use(na, 94)>>
TryInputs ==
    {Batch(<<Asg(nc), Def(nf, <<try>> \o TryReads)>>) :
        try \in {t \in TryStatements :
                    /\ t.handlers # <<>> \/ t.finalbody # <<>>
                    /\ t.orelse # <<>> => t.handlers # <<>>}}

SpecTry == InitWith(CoreInputs \cup TryInputs) /\ [][Next]_all_vars

\* a block made of assignments and reads only, and the names it binds
IsPlain(body) == \A j \in 1..Len(body) : body[j].k = "Assign" \/ IsRead(body[j])
PlainBinds(body) ==
    UNION {AssignBinds(body[j]) : j \in {i \in 1..Len(body) : body[i].k = "Assign"}}
\* a function body made of one try statement of plain blocks, then reads
IsTryThenReads(body) ==
    /\ body # <<>>
    /\ body[1].k = "Try"
    /\ IsPlain(body[1].body) /\ IsPlain(body[1].orelse) /\ IsPlain(body[1].finalbody)
    /\ \A h \in 1..Len(body[1].handlers) : IsPlain(body[1].handlers[h].body)
    /\ \A j \in 2..Len(body) : IsRead(body[j])
\* the names a handler binds, and those its try, else and finally blocks bind
HandlerBinds(handler) == Range(HandlerVars(handler)) \cup PlainBinds(handler.body)
BlockBinds(try) == PlainBinds(try.body \o try.orelse \o try.finalbody)
\* the checked functions of the unit list that have this shape
TryFunctions ==
    {u \in 1..Len(units) :
        /\ IsFunc(units[u])
        /\ ~_decorated_to_skip_checking(units[u])
        /\ IsTryThenReads(units[u].body)}
\* the read at position j of a handler is of a name that the handler has not
\* bound by then
ForeignRead(handler, j) ==
    /\ IsRead(handler.body[j])
    /\ handler.body[j].value.id \notin Range(HandlerVars(handler))
    /\ handler.body[j].value.id \notin PlainBinds(SubSeq(handler.body, 1, j - 1))

\* C6: when a handler has been visited and its scope is left, the scope stack
\* is the one the try statement found; a read after the try statement of a
\* name that only handlers bind is reported, and so is a read in a handler of
\* a name that only another handler binds.
C6_HandlerNamesStayInside ==
    /\ Resuming("Try_resume") => SubSeq(scopes, 1, Len(scopes) - 1) = top.pre
    /\ (pc = "done" /\ filename # None) =>
          \A u \in TryFunctions :
              LET try == units[u].body[1]
                  Others(h) == UNION {HandlerBinds(try.handlers[g]) :
                                      g \in (1..Len(try.handlers)) \ {h}}
              IN /\ \A j \in 2..Len(units[u].body) :
                        LET n == units[u].body[j].value
                        IN (/\ Unbound(units[u], n.id)
                            /\ n.id \in Others(0)
                            /\ n.id \notin BlockBinds(try))
                           => Reported(n.lineno, "unresolved", n.id)
                 /\ \A h \in 1..Len(try.handlers) :
                        \A j \in 1..Len(try.handlers[h].body) :
                            LET n == try.handlers[h].body[j].value
                            IN (/\ ForeignRead(try.handlers[h], j)
                                /\ Unbound(units[u], n.id)
                                /\ n.id \in Others(h))
                               => Reported(n.lineno, "unresolved", n.id)

\* a try statement with two handlers has been checked: the first binds e and
\* y, the second reads both and both reads are reported, as are the reads of
\* e and y after the statement
C6_Witness ==
    /\ pc = "done"
    /\ filename # None
    /\ \E u \in TryFunctions :
          /\ Len(units[u].body[1].handlers) = 2
          /\ {ne, ny} \subseteq HandlerBinds(units[u].body[1].handlers[1])
          /\ HandlerBinds(units[u].body[1].handlers[2]) = {}
    /\ Reported(22, "unresolved", ne)
    /\ Reported(24, "unresolved", ny)
    /\ Reported(91, "unresolved", ny)
    /\ Reported(93, "unresolved", ne)

\* C7: a handler is visited with the scope stack the try statement found and
\* one more scope that holds its exception-binding name and nothing else; a
\* read in a handler of a name that only the try, else or finally block
\* binds is reported.
C7_HandlerSeesStateBeforeTry ==
    /\ (Visiting("ExceptHandler") /\ Len(work) > 1 /\ work[2].op = "Try_resume") =>
          scopes = Append(work[2].pre, Range(HandlerVars(top.node)))
    /\ (pc = "done" /\ filename # None) =>
          \A u \in TryFunctions :
              LET try == units[u].body[1]
              IN \A h \in 1..Len(try.handlers) :
                     \A j \in 1..Len(try.handlers[h].body) :
                         LET n == try.handlers[h].body[j].value
                         IN (/\ ForeignRead(try.handlers[h], j)
                             /\ Unbound(units[u], n.id)
                             /\ n.id \in BlockBinds(try))
                            => Reported(n.lineno, "unresolved", n.id)

\* a try statement whose try block binds x and whose else block binds z has
\* been checked; its first handler reads x and z, and both reads are reported
C7_Witness ==
    /\ pc = "done"
    /\ filename # None
    /\ \E u \in TryFunctions :
          /\ nx \in PlainBinds(units[u].body[1].body)
          /\ nz \in PlainBinds(units[u].body[1].orelse)
          /\ Len(units[u].body[1].handlers) >= 1
          /\ ForeignRead(units[u].body[1].handlers[1], 2)
    /\ Reported(13, "unresolved", nx)
    /\ Reported(15, "unresolved", nz)

\* C8: a try statement of plain blocks leaves the scope stack it found, with
\* the names its try, else and finally blocks bind added to the innermost
\* scope; a read of a name bound by the try block is not reported in the
\* else block, nor is a read of a name bound by the try or else block in the
\* finally block, nor a read of a name bound by any of the three after the
\* statement.
C8_TryBlocksBindInEnclosingScope ==
    /\ (/\ last.node.k = "Try"
        /\ IsPlain(last.node.body)
        /\ IsPlain(last.node.orelse)
        /\ IsPlain(last.node.finalbody))
       => last.post = AddToTop(last.pre, BlockBinds(last.node))
    /\ (pc = "done" /\ filename # None) =>
          \A u \in TryFunctions :
              LET try == units[u].body[1]
                  Quiet(body, bound) ==
                      \A j \in 1..Len(body) :
                          (IsRead(body[j]) /\ body[j].value.id \in bound)
                          => ~Reported(body[j].value.lineno, "unresolved",
                                       body[j].value.id)
              IN /\ Quiet(try.orelse, PlainBinds(try.body))
                 /\ Quiet(try.finalbody, PlainBinds(try.body \o try.orelse))
                 /\ Quiet(Tail(units[u].body), BlockBinds(try))

\* a try statement whose try block binds x, whose else block reads x and
\* binds z, and whose finally block reads x and z and binds a has been
\* checked: the only diagnostics are about the names of the handlers
C8_Witness ==
    /\ pc = "done"
    /\ filename # None
    /\ \E u \in TryFunctions :
          /\ nx \in PlainBinds(units[u].body[1].body)
          /\ nz \in PlainBinds(units[u].body[1].orelse)
          /\ na \in PlainBinds(units[u].body[1].finalbody)
          /\ Len(units[u].body[1].handlers) = 2
    /\ \A i \in 1..Len(all_errors) :
          /\ all_errors[i].lineno \notin {50, 60, 61, 90, 92, 94}
          /\ all_errors[i].lineno < 90 \/ all_errors[i].var \in {ny, ne}
    /\ all_errors # <<>>


(***************************************************************************)
(* C9, C10                                                                 *)
(***************************************************************************)
(* files of at most MaxClasses classes.  The last class of a file has a
   method that reads attributes, with or without a constructor, before or
   after the method; the classes before it only define names.  The class at
   position c has its reads on the lines 10 * c + 1 .. 10 * c + 3 *)
MaxClasses == 2
SkipMarked(func) == [func EXCEPT !.decorator_list = <<Load(no_block_scoping_name, 0)>>]
Constructors ==
    {<<>>,
     <<Method(ninit, <<SetAttr(na)>>)>>,
     <<Method(ninit, <<SetAttr(na), CallSelf(nm)>>)>>,
     <<SkipMarked(Method(ninit, <<SetAttr(na)>>))>>,
     <<Method(ninit, <<If(Cond, <<SetAttr(nb)>>, <<>>), SetAttr(na)>>)>>}
ReadingMethods(c) ==
    {Method(nm, <<UseAttr(na, 10 * c + 1), UseAttr(nb, 10 * c + 2),
                   UseAttr(nv, 10 * c + 3)>>),
     Method(nm, <<SetAttr(nb), UseAttr(nb, 10 * c + 2), UseAttr(na, 10 * c + 1)>>)}
ReadingClasses(c) ==
    {ClassDef(nB, bases, class_vars_ \o (IF init_first THEN init \o <<method>>
                                         ELSE <<method>> \o init)) :
        bases \in {<<>>, <<Load(nA, 0)>>},
        class_vars_ \in {<<>>, <<Asg(nv)>>},
        init_first \in BOOLEAN,
        init \in Constructors,
        method \in ReadingMethods(c)}
DefiningClasses ==
    {ClassDef(nA, <<>>, <<Method(nb, <<Pass>>)>>),
     ClassDef(nA, <<>>, <<Asg(nv), Method(ninit, <<SetAttr(nb)>>)>>)}
RECURSIVE ClassLists(_)
\* the lists of exactly n defining classes
ClassLists(n) ==
    IF n = 0 THEN {<<>>}
    ELSE {Append(l, cls) : l \in ClassLists(n - 1), cls \in DefiningClasses}
ClassInputs ==
    {Batch(<<Asg(nc)>> \o before \o <<cls>>) :
        before \in UNION {ClassLists(n) : n \in 0..(MaxClasses - 1)},
        cls \in UNION {ReadingClasses(c) : c \in 1..MaxClasses}}

SpecClass == InitWith(CoreInputs \cup ClassInputs) /\ [][Next]_all_vars

\* the checker has produced this unresolved-symbol diagnostic (it is in the
\* list of a ScopeChecker, of _check_class or of check_file)
Diagnosed(lineno, v) ==
    \E errs \in {errors, cls_errors, all_errors} :
        \E i \in 1..Len(errs) :
            /\ errs[i].lineno = lineno
            /\ errs[i].kind = "unresolved"
            /\ errs[i].var = v
\* the classes of the unit list that have no base class and a constructor
ClassesWithInit ==
    {u \in 1..Len(units) :
        /\ units[u].k = "ClassDef"
        /\ units[u].bases = <<>>
        /\ InitMethod(MethodNodes(units[u])) # <<>>}
TheInit(u) == InitMethod(MethodNodes(units[u]))[1]
\* the reads self.<attr> of a method
SelfReads(method) ==
    {n \in walk(method) :
        /\ n.k = "Attribute"
        /\ n.ctx = "Load"
        /\ n.value.k = "Name"
        /\ n.value.id = nself}

\* C9: in a class without a base class, a read self.x in a method other
\* than the constructor never gets an unresolved-symbol diagnostic when the
\* constructor assigns self.x at the top level of its body, be the
\* constructor before or after the method in the class body.
C9_ConstructorAttributesVisible ==
    \A u \in ClassesWithInit :
        \A i \in 1..Len(MethodNodes(units[u])) :
            MethodNodes(units[u])[i].name # ninit =>
                \A n \in SelfReads(MethodNodes(units[u])[i]) :
                    SelfAttr(n.attr) \in PlainBinds(TheInit(u).body)
                    => ~Diagnosed(n.lineno, SelfAttr(n.attr))


\* every name self.<attr> that an assignment found anywhere in a function binds
AllSelfBinds(func) ==
    UNION {AssignBinds(n) : n \in {w \in walk(func) : w.k = "Assign"}}
\* a statement that reads self.<attr> and does nothing else
IsSelfRead(stmt) ==
    /\ stmt.k = "Expr"
    /\ stmt.value.k = "Attribute"
    /\ stmt.value.ctx = "Load"
    /\ stmt.value.value.k = "Name"
    /\ stmt.value.value.id = nself

\* C10: when a file has been checked, in each of its classes that has no
\* base class and whose constructor calls no method of the class, a
\* statement self.a of a checked method other than the constructor is
\* reported as unresolved if the constructor does not bind self.a, a is
\* neither a class-level variable nor a method of this class, and no earlier
\* statement of the method (and nothing at module level) binds self.a.
C10_UnknownAttributeReported ==
    (pc = "done" /\ filename # None) =>
        \A u \in 1..Len(units) :
            (/\ units[u].k = "ClassDef"
             /\ units[u].bases = <<>>
             /\ ~_init_calls_any_method(units[u]))
            => \A i \in 1..Len(MethodNodes(units[u])) :
                  LET method == MethodNodes(units[u])[i]
                      init == InitMethod(MethodNodes(units[u]))
                  IN (method.name # ninit /\ ~_decorated_to_skip_checking(method)) =>
                        \A j \in 1..Len(method.body) :
                            LET n == method.body[j].value
                            IN (/\ IsSelfRead(method.body[j])
                                /\ init # <<>> => SelfAttr(n.attr) \notin AllSelfBinds(init[1])
                                /\ n.attr \notin class_level_vars(units[u])
                                /\ \A b \in 1..Len(units[u].body) :
                                      IsFunc(units[u].body[b]) =>
                                          units[u].body[b].name # n.attr
                                /\ \A q \in 1..(j - 1) :
                                      SelfAttr(n.attr) \notin AllSelfBinds(method.body[q])
                                /\ SelfAttr(n.attr) \notin ModuleVars(units))
                               => Reported(n.lineno, "unresolved", SelfAttr(n.attr))


(***************************************************************************)
(* C11                                                                     *)
(***************************************************************************)
(* classes, with and without a base class, whose constructor or whose method
   m uses attributes of self in at most MaxAttrStmts statements: a read, a
   call, an augmented assignment, next to the read of an ordinary name; the
   statement at position j is on line j *)
MaxAttrStmts == 2
AttrStmtsAt(j) ==
    {UseAttr(na, j),
     Expr(Call(Attribute(Self, nb, "Load", j), <<>>)),
     AugAssign(Attribute(Self, na, "Store", j), Constant, j),
     Use(nz, j)}
RECURSIVE AttrBodies(_)
\* the bodies of exactly n statements
AttrBodies(n) ==
    IF n = 0 THEN {<<>>}
    ELSE {Append(body, stmt) : body \in AttrBodies(n - 1), stmt \in AttrStmtsAt(n)}
AttrInputs ==
    {Batch(<<Asg(nc), Asg(nB), ClassDef(nA, bases, methods)>>) :
        bases \in {<<>>, <<Load(nB, 0)>>},
        methods \in UNION {{<<Method(ninit, body), Method(nm, <<Pass>>)>>,
                            <<Method(ninit, <<Pass>>), Method(nm, body)>>} :
                           body \in UNION {AttrBodies(n) : n \in 1..MaxAttrStmts}}}

SpecAttr == InitWith(CoreInputs \cup AttrInputs) /\ [][Next]_all_vars

\* C11: while a function is checked with attribute checking disabled, no
\* diagnostic about a name self.<attr> is recorded; and when a file has
\* been checked, a read of an ordinary name that nothing binds, in a
\* constructor or in a method of a class with a base class, is reported.
C11_NoAttributeDiagnosticWhenDisabled ==
    /\ ~attr_check => \A i \in 1..Len(errors) : ~StartsWithSelfDot(errors[i].var)
    /\ (pc = "done" /\ filename # None) =>
          \A u \in 1..Len(units) :
              units[u].k = "ClassDef" =>
                  \A i \in 1..Len(MethodNodes(units[u])) :
                      LET method == MethodNodes(units[u])[i]
                      IN (/\ method.name = ninit \/ units[u].bases # <<>>
                          /\ ~_decorated_to_skip_checking(method))
                         => \A j \in 1..Len(method.body) :
                               (/\ IsRead(method.body[j])
                                /\ Unbound(method, method.body[j].value.id)
                                /\ \A q \in 1..(j - 1) : method.body[q].k # "Assign")
                               => Reported(method.body[j].value.lineno, "unresolved",
                                           method.body[j].value.id)


(***************************************************************************)
(* C12                                                                     *)
(***************************************************************************)
(* skip-marked function definitions, sync and async, whose bodies (lines 50
   to 52) hold what a checked function would be reported for: as the unit
   handed to the driver, as a method, and nested in a checked function, at
   its top level or inside a for loop over i; a call of the function and a
   read of x follow (lines 60, 61) *)
SkippedBodies ==
    {<<Use(nz, 50)>>,
     <<Asg(nx), AugAssign(Store(nz, 50), Constant, 50)>>,
     <<For(Store(ni, 51), Load(nz, 51), <<For(Store(ni, 52), Load(ns, 52), <<Pass>>)>>)>>}
SkippedFunctions ==
    {SkipMarked(def) :
        def \in UNION {{Def(ng, body), AsyncFunctionDef(ng, Arguments(<<>>), body, <<>>)} :
                       body \in SkippedBodies}}
SkipInputs ==
    UNION {{Batch(<<Asg(ns), g>>),
            Strict(g),
            Batch(<<Asg(ns), ClassDef(nA, <<>>, <<[g EXCEPT !.args = Arguments(<<nself>>)]>>)>>),
            Batch(<<Asg(ns), Def(nf, <<g, Expr(Call(Load(ng, 60), <<>>)), Use(nx, 61)>>)>>),
            Strict(Def(nf, <<g, Expr(Call(Load(ng, 60), <<>>))>>)),
            Batch(<<Asg(ns), Def(nf, <<For(Store(ni, 40), Load(ns, 40),
                                           <<g, Expr(Call(Load(ng, 60), <<>>))>>),
                                       Use(nx, 61)>>)>>)} :
           g \in SkippedFunctions}

SpecSkip == InitWith(CoreInputs \cup SkipInputs) /\ [][Next]_all_vars

\* the lines of the statements of a block and of all they hold
LinesIn(body) ==
    UNION {{n.lineno : n \in {w \in walk(body[j]) :
                               w.k \in {"Name", "Attribute", "Tuple", "List", "AugAssign"}}} :
           j \in 1..Len(body)}
\* the skip-marked function definitions of the unit list, nested ones included
SkippedIn ==
    {n \in UNION {walk(units[u]) : u \in 1..Len(units)} :
        IsFunc(n) /\ _decorated_to_skip_checking(n)}

\* C12: the visit of a skip-marked function definition pops the definition
\* off the traversal and changes nothing else: neither the scope stack, nor
\* the loop-variable registry, nor the diagnostics; and no diagnostic is ever
\* recorded for a line of the body of a skip-marked definition.
C12_SkipMarkedFunctionUntouched ==
    /\ [][(/\ work # <<>>
           /\ top.op = "visit"
           /\ IsFunc(top.node)
           /\ _decorated_to_skip_checking(top.node))
          => (/\ work' = rest
              /\ scopes' = scopes
              /\ for_loop_vars' = for_loop_vars
              /\ errors' = errors
              /\ raised' = raised)]_all_vars
    /\ [](\A n \in SkippedIn :
             \A errs \in {errors, cls_errors, all_errors} :
                 \A i \in 1..Len(errs) : errs[i].lineno \notin LinesIn(n.body))

\* a function has been checked that defines, inside a for loop over i, a
\* skip-marked function whose body is a for loop over i again and reads an
\* unbound name: the only diagnostics are those of the call of the function
\* and of the read of x after the loop
C12_Witness ==
    /\ pc = "done"
    /\ filename # None
    /\ \E n \in SkippedIn : n.body[1].k = "For" /\ n \notin Range(units)
    /\ Len(units) = 2 /\ units[2].body[1].k = "For"
    /\ Len(all_errors) = 2
    /\ Reported(60, "unresolved", ng)
    /\ Reported(61, "unresolved", nx)


(***************************************************************************)
(* C13                                                                     *)
(***************************************************************************)
(* skip-marked classes whose methods (lines 50 to 52) hold what a checked
   method would be reported for: as the unit handed to the class analyzer,
   by check_file or by the decorator, and nested in a checked function *)
SkippedClasses ==
    {SkipMarked(ClassDef(nA, <<>>, body)) :
        body \in {<<Method(nm, <<Use(nz, 50)>>)>>,
                  <<Method(ninit, <<SetAttr(na), Use(nz, 50)>>),
                    Method(nm, <<UseAttr(na, 51), UseAttr(nb, 52)>>)>>}}
SkipClassInputs ==
    UNION {{Batch(<<Asg(ns), cls>>),
            Strict(cls),
            Batch(<<Asg(ns), Def(nf, <<cls, Use(nx, 61)>>)>>),
            Strict(Def(nf, <<cls, Use(nx, 61)>>))} :
           cls \in SkippedClasses}

SpecSkipClass == InitWith(CoreInputs \cup SkipClassInputs) /\ [][Next]_all_vars

\* the skip-marked classes of the unit list, nested ones included
SkippedClassesIn ==
    {n \in UNION {walk(units[u]) : u \in 1..Len(units)} :
        n.k = "ClassDef" /\ _decorated_to_skip_checking(n)}

\* C13: no diagnostic is ever recorded for a line of the body of a
\* skip-marked class, be the class a unit of its own or nested in a checked
\* function.
C13_SkipMarkedClassSkipped ==
    \A n \in SkippedClassesIn :
        \A errs \in {errors, cls_errors, all_errors} :
            \A i \in 1..Len(errs) : errs[i].lineno \notin LinesIn(n.body)


(***************************************************************************)
(* C14                                                                     *)
(***************************************************************************)
(* units handed to the decorator: functions of at most MaxStrictStmts
   statements, each a good statement, an unresolved read or augmented
   assignment, or a for loop that takes the target of the loop around it;
   and classes of three methods with such bodies.  The statement at position
   j is on the lines 10 * j .. 10 * j + 1 *)
MaxStrictStmts == 3
StrictStmtsAt(j) ==
    {Asg(nx),
     Use(nz, 10 * j),
     AugAssign(Store(ny, 10 * j), Constant, 10 * j),
     For(Store(ni, 10 * j), Load(ns, 10 * j),
         <<For(Store(ni, 10 * j + 1), Load(ns, 10 * j + 1), <<Pass>>)>>)}
RECURSIVE StrictBodies(_)
\* the bodies of exactly n statements
StrictBodies(n) ==
    IF n = 0 THEN {<<>>}
    ELSE {Append(body, stmt) : body \in StrictBodies(n - 1), stmt \in StrictStmtsAt(n)}
StrictInputs ==
    {Strict(Def(nf, body)) : body \in UNION {StrictBodies(n) : n \in 1..MaxStrictStmts}}
    \cup {Strict(ClassDef(nA, <<>>, <<Method(ninit, <<a>>), Method(na, <<b>>),
                                      Method(nm, <<c>>)>>)) :
              a \in StrictStmtsAt(1), b \in StrictStmtsAt(2), c \in StrictStmtsAt(3)}

SpecStrict == InitWith(CoreInputs \cup StrictInputs) /\ [][Next]_all_vars

\* C14: in strict mode the checker has raised exactly when a diagnostic is
\* recorded, there is then one diagnostic and nothing is left to visit; and
\* no step is ever taken once the checker has raised: no later construct is
\* visited, no later method is checked.
C14_StrictModeStopsAtFirstDiagnostic ==
    /\ [](filename = None =>
             /\ raised <=> errors # <<>>
             /\ Len(errors) <= 1
             /\ raised => work = <<>>
             /\ cls_errors = <<>> /\ all_errors = <<>>)
    /\ [][~raised]_all_vars

\* the decorator has raised in the second of the three methods of a class,
\* for a for loop that reuses a target
C14_Witness ==
    /\ filename = None
    /\ raised
    /\ pc = "class_method"
    /\ mi = 2
    /\ Len(method_nodes) = 3
    /\ Len(errors) = 1
    /\ errors[1].kind = "reuse"


(***************************************************************************)
(* C15                                                                     *)
(***************************************************************************)
(* files of two functions, f and g, each one for loop over i that holds an
   earlier and a later construct.  The later construct is the same in both;
   the earlier construct of f produces a diagnostic, that of g is its
   counterpart without one.  The lines of g are those of f plus TwinShift. *)
TwinShift == 100
EarlierPairs(l) ==
    {[bad  |-> For(Store(ni, l), Load(ns, l), <<Pass>>),
      good |-> For(Store(nj, l + TwinShift), Load(ns, l + TwinShift), <<Pass>>)],
     [bad  |-> Use(nz, l),
      good |-> Use(ns, l + TwinShift)],
     [bad  |-> AugAssign(Store(ny, l), Constant, l),
      good |-> AugAssign(Store(ns, l + TwinShift), Constant, l + TwinShift)]}
LaterAt(l) ==
    {[in_f |-> For(Store(ni, l), Load(ns, l), <<Pass>>),
      in_g |-> For(Store(ni, l + TwinShift), Load(ns, l + TwinShift), <<Pass>>)],
     [in_f |-> For(Store(nj, l), Load(ns, l), <<Pass>>),
      in_g |-> For(Store(nj, l + TwinShift), Load(ns, l + TwinShift), <<Pass>>)],
     [in_f |-> Use(nz, l), in_g |-> Use(nz, l + TwinShift)],
     [in_f |-> Use(ni, l), in_g |-> Use(ni, l + TwinShift)],
     [in_f |-> AugAssign(Store(ny, l), Constant, l),
      in_g |-> AugAssign(Store(ny, l + TwinShift), Constant, l + TwinShift)]}
TwinFiles ==
    {<<Asg(ns),
       Def(nf, <<For(Store(ni, 1), Load(ns, 1), <<e.bad, l.in_f>>)>>),
       Def(ng, <<For(Store(ni, 1 + TwinShift), Load(ns, 1 + TwinShift),
                     <<e.good, l.in_g>>)>>)>> :
        e \in EarlierPairs(2), l \in LaterAt(3)}
RecoveryInputs == {Batch(file) : file \in TwinFiles}

SpecRecovery == InitWith(CoreInputs \cup RecoveryInputs) /\ [][Next]_all_vars

\* C15: in batch mode the checker never raises; and when a file of twin
\* functions has been checked, the later construct has the same diagnostics
\* in f, where the construct before it produced a diagnostic, as in g, where
\* the construct before it produced none.
C15_BadConstructSuppressesNothing ==
    /\ filename # None => ~raised
    /\ (pc = "done" /\ filename # None /\ units \in TwinFiles) =>
          \A kind \in {"unresolved", "reuse"}, v \in {ni, nj, ny, nz} :
              Reported(3, kind, v) <=> Reported(3 + TwinShift, kind, v)


(***************************************************************************)
(* C16                                                                     *)
(***************************************************************************)
(* functions of one statement that reads, on line l, a name bound nowhere:
   as a statement, as a call argument, as the value of an assignment, as the
   test of an if, of an elif or of a while, as the iterable of a for loop or
   of a comprehension, as the value of an annotated assignment *)
ReadingStmts(v, l) ==
    {Use(v, l),
     Expr(Call(Load(nprint, l), <<Load(v, l)>>)),
     Assign(<<Store(nx, l)>>, Load(v, l)),
     If(Load(v, l), <<Pass>>, <<>>),
     If(Load(ns, l), <<Pass>>, <<If(Load(v, l), <<Pass>>, <<>>)>>),
     If(Load(ns, l), <<Pass>>, <<Use(v, l)>>),
     While(Load(v, l), <<Pass>>),
     For(Store(ni, l), Load(v, l), <<Pass>>),
     Expr(ListComp(Load(ni, l), <<comprehension(Store(ni, l), Load(v, l), <<>>)>>)),
     Expr(SetComp(Load(ni, l), <<comprehension(Store(ni, l), Load(ns, l), <<Load(v, l)>>)>>)),
     Expr(DictComp(Load(ni, l), Load(v, l), <<comprehension(Store(ni, l), Load(ns, l), <<>>)>>)),
     Expr(DictComp(Load(ni, l), Load(ni, l), <<comprehension(Store(ni, l), Load(v, l), <<>>)>>)),
     AnnAssign(Store(nx, l), Load(nprint, l), <<Load(v, l)>>),
     AugAssign(Store(ns, l), Load(v, l), l)}
ReadInputs ==
    {Batch(<<Asg(ns), Def(nf, <<stmt>>)>>) : stmt \in ReadingStmts(nz, 1)}
    \cup {Batch(<<Asg(ns), Def(nf, <<a, b>>)>>) :
              a \in ReadingStmts(nz, 1), b \in {Use(ny, 2)}}

SpecRead == InitWith(CoreInputs \cup ReadInputs) /\ [][Next]_all_vars

\* the names a function binds somewhere: the targets, the names of the
\* definitions and of the handlers, the arguments of the definitions
BoundSomewhere(func) ==
    UNION {CASE n.k = "Name" /\ n.ctx = "Store" -> {n.id}
             [] n.k \in {"FunctionDef", "AsyncFunctionDef"} ->
                   {n.name} \cup Range(arg_names(n))
             [] n.k = "ClassDef" -> {n.name}
             [] n.k = "ExceptHandler" -> Range(n.name)
             [] OTHER -> {}
           : n \in walk(func)}

\* no definition in the function is decorated
Undecorated(func) ==
    \A n \in walk(func) :
        n.k \in {"FunctionDef", "AsyncFunctionDef", "ClassDef"} => n.decorator_list = <<>>

\* C16: when a file has been checked, every read of a plain name in the body
\* of a function without decorated definitions, of a name that the function
\* binds nowhere and that is neither a global, a builtin nor dunder-exempt,
\* has its unresolved-symbol diagnostic; the reads in conditions, iterables
\* and annotated values are reads as the others.
C16_EveryUnresolvedReadReported ==
    (pc = "done" /\ filename # None) =>
        \A u \in 1..Len(units) :
            (IsFunc(units[u]) /\ Undecorated(units[u])) =>
                \A n \in walk(units[u]) :
                    (/\ n.k = "Name" /\ n.ctx = "Load"
                     /\ Unbound(units[u], n.id)
                     /\ n.id \notin BoundSomewhere(units[u]))
                    => Reported(n.lineno, "unresolved", n.id)


(***************************************************************************)
(* C17                                                                     *)
(***************************************************************************)
(* comprehensions of at most MaxGenerators clauses.  The first clause takes
   i or the tuple (i, j), the clauses after it take j; the last clause may
   hold a filter, on line 2.  The element is on line 1, the value of a dict
   comprehension on line 3.  The statement after the comprehension reads one
   of i and j, on line 5. *)
MaxGenerators == 2
CompFilters == {<<>>, <<Load(ni, 2)>>, <<Load(nj, 2)>>, <<Load(nz, 2)>>}
RECURSIVE GeneratorLists(_)
\* the lists of exactly n clauses, without a filter
GeneratorLists(n) ==
    IF n = 1
    THEN {<<comprehension(t, Load(ns, 0), <<>>)>> :
              t \in {Store(ni, 0), Tuple(<<Store(ni, 0), Store(nj, 0)>>, 0)}}
    ELSE {Append(gs, comprehension(Store(nj, 0), Load(ni, 0), <<>>)) :
              gs \in GeneratorLists(n - 1)}
Generators ==
    {[gs EXCEPT ![Len(gs)].ifs = f] :
        gs \in UNION {GeneratorLists(n) : n \in 1..MaxGenerators}, f \in CompFilters}
CompElts(l) == {Load(ni, l), Load(nj, l), Load(nz, l)}
Comprehensions ==
    {ListComp(e, gs) : e \in CompElts(1), gs \in Generators}
    \cup {SetComp(e, gs) : e \in CompElts(1), gs \in Generators}
    \cup {DictComp(Load(ni, 1), e, gs) : e \in CompElts(3), gs \in Generators}
CompInputs ==
    {Batch(<<Asg(ns), Def(nf, <<Expr(comp), Use(t, 5)>>)>>) :
        comp \in Comprehensions, t \in {ni, nj}}

SpecComp == InitWith(CoreInputs \cup CompInputs) /\ [][Next]_all_vars

IsComp(node) == node.k \in {"ListComp", "SetComp", "DictComp"}
\* the function is a comprehension followed by a read
IsCompThenRead(func) ==
    /\ Len(func.body) = 2
    /\ func.body[1].k = "Expr" /\ IsComp(func.body[1].value)
    /\ IsRead(func.body[2])
\* the targets of a comprehension: the names, and the names of the tuples,
\* that its clauses take
CompTargets(comp) ==
    UNION {IF g.target.k = "Name" THEN {g.target.id}
           ELSE {g.target.elts[i].id : i \in 1..Len(g.target.elts)}
           : g \in Range(comp.generators)}
\* the expressions of a comprehension that are evaluated with its targets:
\* the element, or the key and the value, and the filters
CompReads(comp) ==
    (IF comp.k = "DictComp" THEN {comp.key, comp.value} ELSE {comp.elt})
    \cup UNION {Range(g.ifs) : g \in Range(comp.generators)}

\* C17: a comprehension leaves the scope stack as it found it; and when a
\* function made of a comprehension and a read has been checked, a name read
\* in the element, key, value or filters is reported exactly when it is
\* neither a target of a clause nor visible around the comprehension, and
\* the read after the comprehension of a target that nothing else binds is
\* reported.
C17_ComprehensionTargetsStayInside ==
    /\ IsComp(last.node) => last.post = last.pre
    /\ (pc = "done" /\ filename # None) =>
          \A u \in 1..Len(units) :
              (IsFunc(units[u]) /\ IsCompThenRead(units[u])) =>
                  LET comp == units[u].body[1].value
                      after == units[u].body[2].value
                  IN /\ \A n \in CompReads(comp) :
                            Reported(n.lineno, "unresolved", n.id)
                            <=> (n.id \notin CompTargets(comp) /\ Unbound(units[u], n.id))
                     /\ Unbound(units[u], after.id)
                        => Reported(after.lineno, "unresolved", after.id)

\* a dict comprehension of two clauses, the first over a tuple, has been
\* checked: the value and the filter read targets and are not reported, the
\* read of the target i after it is
C17_Witness ==
    /\ pc = "done" /\ filename # None
    /\ \E u \in 1..Len(units) :
          /\ IsFunc(units[u]) /\ IsCompThenRead(units[u])
          /\ LET comp == units[u].body[1].value
             IN /\ comp.k = "DictComp"
                /\ Len(comp.generators) = 2
                /\ comp.generators[1].target.k = "Tuple"
                /\ comp.value.id = nj
                /\ comp.generators[2].ifs = <<Load(nj, 2)>>
          /\ units[u].body[2].value.id = ni
    /\ ~Reported(3, "unresolved", nj)
    /\ ~Reported(2, "unresolved", nj)
    /\ Reported(5, "unresolved", ni)
    /\ Len(all_errors) = 1


(***************************************************************************)
(* C18                                                                     *)
(***************************************************************************)
(* with statements of at most MaxWithItems items.  The first item is a call
   of block_scope, a call of another name, or the name block_scope without a
   call; it binds nothing, a, or the tuple (a, b).  The items after it are
   calls of another name that bind v.  The body, on line 2, assigns x, reads
   a, or both; the statement after the with reads a, b, v or x on line 5.
   The module binds block_scope, as its import would. *)
MaxWithItems == 2
ContextExprs ==
    {Call(Load(block_scope_name, 1), <<>>),
     Call(Load(nprint, 1), <<>>),
     Load(block_scope_name, 1)}
OptionalVars ==
    {<<>>, <<Store(na, 1)>>, <<Tuple(<<Store(na, 1), Store(nb, 1)>>, 1)>>}
RECURSIVE WithItems(_)
\* the lists of exactly n items
WithItems(n) ==
    IF n = 1
    THEN {<<withitem(e, ov)>> : e \in ContextExprs, ov \in OptionalVars}
    ELSE {Append(items, withitem(Call(Load(nprint, 1), <<>>), <<Store(nv, 1)>>)) :
              items \in WithItems(n - 1)}
WithBodies == {<<Pass>>, <<Asg(nx)>>, <<Use(na, 2)>>, <<Asg(nx), Use(na, 2)>>}
WithInputs ==
    {Batch(<<Asg(block_scope_name), Def(nf, <<With(items, body), Use(t, 5)>>)>>) :
        items \in UNION {WithItems(n) : n \in 1..MaxWithItems},
        body \in WithBodies,
        t \in {na, nb, nv, nx}}

SpecWith == InitWith(CoreInputs \cup WithInputs) /\ [][Next]_all_vars

\* a with statement whose body is made of assignments and reads
IsPlainWith(node) ==
    /\ node.k = "With"
    /\ (node.body = <<Pass>> \/ IsPlain(node.body))
\* the function is such a with statement, followed by a read
IsWithThenRead(func) ==
    /\ Len(func.body) = 2
    /\ IsPlainWith(func.body[1])
    /\ IsRead(func.body[2])
\* the with statement is `with block_scope() ...`
MarksScope(with) == with.items[1].context_expr = Call(Load(block_scope_name, 1), <<>>)
\* the names of the `as` targets of a with statement
AsTargets(with) ==
    UNION {{n.id : n \in {m \in UNION {walk(ov) : ov \in Range(with.items[i].optional_vars)} :
                            m.k = "Name"}}
           : i \in 1..Len(with.items)}
\* the names assigned at the top level of a plain block
TopLevelBinds(body) == IF body = <<Pass>> THEN {} ELSE PlainBinds(body)

\* C18: a with statement on block_scope() leaves the scope stack as it found
\* it, any other with statement leaves it with its `as` targets and the
\* names bound at the top level of its body added to the current scope; and
\* when a function made of a with statement and a read has been checked, a
\* read in the body of an `as` target is not reported, and the read after
\* the statement of a name that nothing else binds is reported exactly when
\* the statement is on block_scope() or binds the name neither with `as` nor
\* in its body.
C18_OnlyBlockScopeWithIsAScope ==
    /\ IsPlainWith(last.node) =>
          last.post = IF MarksScope(last.node) THEN last.pre
                      ELSE AddToTop(last.pre, AsTargets(last.node)
                                              \cup TopLevelBinds(last.node.body))
    /\ (pc = "done" /\ filename # None) =>
          \A u \in 1..Len(units) :
              (IsFunc(units[u]) /\ IsWithThenRead(units[u])) =>
                  LET with == units[u].body[1]
                      after == units[u].body[2].value
                      binds == AsTargets(with) \cup TopLevelBinds(with.body)
                  IN /\ \A j \in 1..Len(with.body) :
                            (IsRead(with.body[j]) /\ with.body[j].value.id \in AsTargets(with))
                            => ~Reported(with.body[j].value.lineno, "unresolved",
                                         with.body[j].value.id)
                     /\ Unbound(units[u], after.id) =>
                           (Reported(after.lineno, "unresolved", after.id)
                            <=> (MarksScope(with) \/ after.id \notin binds))

\* `with block_scope() as (a, b), print() as v:` has been checked: the body
\* assigns x and reads a without a diagnostic, the read of v after the
\* statement is reported
C18_Witness ==
    /\ pc = "done" /\ filename # None
    /\ \E u \in 1..Len(units) :
          /\ IsFunc(units[u]) /\ IsWithThenRead(units[u])
          /\ MarksScope(units[u].body[1])
          /\ Len(units[u].body[1].items) = 2
          /\ AsTargets(units[u].body[1]) = {na, nb, nv}
          /\ units[u].body[1].body = <<Asg(nx), Use(na, 2)>>
          /\ units[u].body[2] = Use(nv, 5)
    /\ all_errors # <<>>
    /\ \A i \in 1..Len(all_errors) : all_errors[i].lineno = 5 /\ all_errors[i].var = nv


(***************************************************************************)
(* C19                                                                     *)
(***************************************************************************)
(* function bodies of at most MaxAugStmts statements, each an assignment of
   x, an augmented assignment of x or of an element of x, an augmented
   assignment of y from x, or a read of x.  The statement at position j is
   on line 10 * j. *)
MaxAugStmts == 3
AugStmtsAt(j) ==
    {Asg(nx),
     AugAssign(Store(nx, 10 * j), Constant, 10 * j),
     AugAssign(Subscript(Load(nx, 10 * j)), Constant, 10 * j),
     AugAssign(Store(ny, 10 * j), Load(nx, 10 * j), 10 * j),
     Use(nx, 10 * j)}
RECURSIVE AugBodies(_)
\* the bodies of exactly n statements
AugBodies(n) ==
    IF n = 0 THEN {<<>>}
    ELSE {Append(body, stmt) : body \in AugBodies(n - 1), stmt \in AugStmtsAt(n)}
AugInputs ==
    {Batch(<<Asg(ns), Def(nf, body)>>) :
        body \in UNION {AugBodies(n) : n \in 1..MaxAugStmts}}

SpecAug == InitWith(CoreInputs \cup AugInputs) /\ [][Next]_all_vars

\* an augmented assignment of a name or of an element of a name
IsAug(stmt) ==
    /\ stmt.k = "AugAssign"
    /\ \/ stmt.target.k = "Name"
       \/ stmt.target.k = "Subscript" /\ stmt.target.value.k = "Name"
    /\ stmt.value.k \in {"Constant", "Name"}
\* the name it updates
AugBase(stmt) ==
    IF stmt.target.k = "Name" THEN stmt.target.id ELSE stmt.target.value.id
\* a body made of plain assignments, such augmented assignments and reads
IsAugBody(body) ==
    \A j \in 1..Len(body) :
        \/ body[j].k = "Assign" /\ IsStraightLine(body[j])
        \/ IsAug(body[j])
        \/ IsRead(body[j])
\* the names that the assignments before position j have bound: the
\* augmented assignments count for nothing
AssignedBefore(body, j) ==
    UNION {AssignBinds(body[i]) : i \in {p \in 1..(j - 1) : body[p].k = "Assign"}}

\* C19: the handler of an augmented assignment leaves the scope stack as it
\* is; and when a function made of assignments, augmented assignments and
\* reads has been checked, an augmented assignment whose target name, or
\* whose subscripted name, is bound by no earlier assignment is reported,
\* and so is every read of a name that only augmented assignments precede.
C19_AugmentedAssignmentBindsNothing ==
    /\ [][(work # <<>> /\ top.op = "visit" /\ top.node.k = "AugAssign")
           => scopes' = scopes]_all_vars
    /\ []((pc = "done" /\ filename # None) =>
             \A u \in 1..Len(units) :
                 (IsFunc(units[u]) /\ IsAugBody(units[u].body)) =>
                     LET body == units[u].body
                     IN \A j \in 1..Len(body) :
                           /\ IsAug(body[j]) =>
                                 (Reported(body[j].lineno, "unresolved", AugBase(body[j]))
                                  <=> (/\ Unbound(units[u], AugBase(body[j]))
                                       /\ AugBase(body[j]) \notin AssignedBefore(body, j)))
                           /\ IsRead(body[j]) =>
                                 (Reported(body[j].value.lineno, "unresolved", body[j].value.id)
                                  <=> (/\ Unbound(units[u], body[j].value.id)
                                       /\ body[j].value.id \notin AssignedBefore(body, j))))

\* `x += 1`, `x[...] += 1`, `x` has been checked: three diagnostics for x
C19_Witness ==
    /\ pc = "done" /\ filename # None
    /\ \E u \in 1..Len(units) :
          /\ IsFunc(units[u])
          /\ units[u].body = <<AugAssign(Store(nx, 10), Constant, 10),
                               AugAssign(Subscript(Load(nx, 20)), Constant, 20),
                               Use(nx, 30)>>
    /\ Reported(10, "unresolved", nx)
    /\ Reported(20, "unresolved", nx)
    /\ Reported(30, "unresolved", nx)


(***************************************************************************)
(* C20                                                                     *)
(***************************************************************************)
(* assignment targets, each with the leaf names it is built from.  The
   leaves are x, self.a, x.a, self.a.c, x[...] and *x; a target of depth d
   is a tuple (d odd) or a list (d even) of at most MaxElts elements, one of
   them a target of depth d - 1 and the others y or self.b. *)
MaxTargetDepth == 2
MaxElts == 2
LeafTargets ==
    {[target |-> Store(nx, 0), leaves |-> <<nx>>],
     [target |-> Attribute(Self, na, "Store", 0),
      leaves |-> << <<"s", "e", "l", "f", ".", "a">> >>],
     [target |-> Attribute(Load(nx, 0), na, "Store", 0), leaves |-> <<>>],
     [target |-> Attribute(Attribute(Self, na, "Load", 0), nc, "Store", 0),
      leaves |-> <<>>],
     [target |-> Subscript(Load(nx, 0)), leaves |-> <<>>],
     [target |-> Starred(Store(nx, 0)), leaves |-> <<nx>>]}
FillTargets ==
    {[target |-> Store(ny, 0), leaves |-> <<ny>>],
     [target |-> Attribute(Self, nb, "Store", 0),
      leaves |-> << <<"s", "e", "l", "f", ".", "b">> >>]}
RECURSIVE Concat(_)
\* the concatenation of a sequence of sequences
Concat(seqs) == IF seqs = <<>> THEN <<>> ELSE Head(seqs) \o Concat(Tail(seqs))
RECURSIVE Targets(_)
Targets(d) ==
    IF d = 0 THEN LeafTargets
    ELSE Targets(d - 1)
         \cup {LET elts == [i \in 1..n |-> IF i = p THEN inner ELSE fill[i]]
               IN [target |-> IF d % 2 = 1
                              THEN Tuple([i \in 1..n |-> elts[i].target], 0)
                              ELSE List([i \in 1..n |-> elts[i].target], 0),
                   leaves |-> Concat([i \in 1..n |-> elts[i].leaves])]
               : <<n, p>> \in {np \in (1..MaxElts) \X (1..MaxElts) : np[2] <= np[1]},
                 fill \in [1..MaxElts -> FillTargets],
                 inner \in Targets(d - 1)}

\* _extract_assign_vars is about to be called on a target; the checker has
\* been handed nothing
InitExtract ==
    /\ \E t \in Targets(MaxTargetDepth) :
          /\ assign_target = t.target
          /\ leaf_names = t.leaves
    /\ result = {}
    /\ filename = None
    /\ units = <<>>
    /\ module_globals = {}
    /\ vars = {}
    /\ pc = "done"
    /\ idx = 1
    /\ all_errors = <<>>
    /\ is_sub_class = FALSE
    /\ method_nodes = <<>>
    /\ obj_attrs = {}
    /\ cls_errors = <<>>
    /\ mi = 1
    /\ scopes = <<>>
    /\ for_loop_vars = {}
    /\ attr_check = FALSE
    /\ last_func_scope = {}
    /\ errors = <<>>
    /\ work = <<>>
    /\ raised = FALSE
    /\ last = NothingLeft
    /\ file_paths = <<>>
    /\ exclude = {}
    /\ path_i = 1
    /\ pending = <<>>
    /\ proc_errors = <<>>
    /\ proc_pc = "idle"

\* the call of _extract_assign_vars, from `result = []` to `return result`
extract_assign_vars ==
    /\ assign_target.k # "None"
    /\ result = {}
    /\ result' = {_extract_assign_vars(assign_target)}
    /\ UNCHANGED <<assign_target, leaf_names, driver_vars, class_vars, checker_vars, last,
                   files_vars>>

NextExtract == extract_assign_vars

SpecExtract == InitExtract /\ [][NextExtract]_all_vars

\* C20: what _extract_assign_vars returns for a target is the sequence of
\* the leaf names the target was built from, left to right: a name for a
\* name, starred or not, 'self.<attr>' for an attribute of self, nothing for
\* another attribute, for an attribute of an attribute and for a subscript.
C20_ExtractReturnsFlattenedLeaves ==
    \A returned \in result : returned = leaf_names

\* the call has returned y, self.b, x for the list [y, (self.b, *x)]
C20_Witness ==
    /\ assign_target = List(<<Store(ny, 0),
                              Tuple(<<Attribute(Self, nb, "Store", 0),
                                      Starred(Store(nx, 0))>>, 0)>>, 0)
    /\ result = {<<ny, <<"s", "e", "l", "f", ".", "b">>, nx>>}


(***************************************************************************)
(* The batch driver over several files (check_files.py)                    *)
(***************************************************************************)
(* A requested path is a file or a directory.  A path is the sequence of
   its names; a file carries what check_file does with it: "clean" (no
   diagnostic), "issue" (one diagnostic) or "broken" (check_file raises). *)
File(path, outcome) == [kind |-> "file", path |-> path, outcome |-> outcome]
Dir(path, dirs, files) == [kind |-> "dir", path |-> path, dirs |-> dirs, files |-> files]

BaseName(path) == path[Len(path)]
\* name.endswith('.py')
EndsWithPy(name) ==
    /\ Len(name) >= 3
    /\ SubSeq(name, Len(name) - 2, Len(name)) = <<".", "p", "y">>

RECURSIVE os_walk(_)
\* os.walk(path), top down: one <<root, dirs, files>> for the directory and
\* for every directory below it
os_walk(dir) ==
    <<[root |-> dir.path,
       dirs |-> [i \in 1..Len(dir.dirs) |-> BaseName(dir.dirs[i].path)],
       files |-> dir.files]>>
    \o Concat([i \in 1..Len(dir.dirs) |-> os_walk(dir.dirs[i])])

\* find_python_files: the files the generator yields, in order.  The list
\* `dirs` it computes is a new list: the one os.walk goes by is not changed.
find_python_files(path, excluded) ==
    IF path.kind = "file" /\ EndsWithPy(BaseName(path.path)) THEN <<path>>
    ELSE IF path.kind = "dir"
    THEN LET walk_ == os_walk(path)
             Wanted(file) == /\ EndsWithPy(BaseName(file.path))
                             /\ BaseName(file.path) \notin excluded
             Kept(d) == d \notin excluded
             dirs(i) == SelectSeq(walk_[i].dirs, Kept)
         IN Concat([i \in 1..Len(walk_) |-> SelectSeq(walk_[i].files, Wanted)])
    ELSE <<>>

\* the diagnostics of check_file for a file that it can parse
IssuesOf(file) ==
    IF file.outcome = "issue" THEN <<[kind |-> "issue", file |-> file.path]>> ELSE <<>>
\* "Unrecoverable error while parsing {file_path}. ..."
Unrecoverable(file) == [kind |-> "unrecoverable", file |-> file.path]

\* process_files: one turn of `for path in file_paths`, and the return
process_files_path ==
    /\ proc_pc = "loop" /\ pending = <<>>
    /\ IF path_i > Len(file_paths)
       THEN /\ proc_pc' = "returned"
            /\ UNCHANGED <<path_i, pending>>
       ELSE /\ pending' = find_python_files(file_paths[path_i], exclude)
            /\ path_i' = path_i + 1
            /\ UNCHANGED proc_pc
    /\ UNCHANGED <<file_paths, exclude, proc_errors, driver_vars, class_vars,
                   checker_vars, last, extract_vars>>

\* process_files: one turn of `for file_path in find_python_files(...)`
process_files_file ==
    /\ proc_pc = "loop" /\ pending # <<>>
    /\ LET file_path == Head(pending)
       IN IF file_path.outcome = "broken"
          THEN IF Len(file_paths) = 1
               THEN /\ proc_pc' = "raised"
                    /\ UNCHANGED <<pending, proc_errors>>
               ELSE /\ proc_errors' = Append(proc_errors, Unrecoverable(file_path))
                    /\ pending' = Tail(pending)
                    /\ UNCHANGED proc_pc
          ELSE /\ proc_errors' = proc_errors \o IssuesOf(file_path)
               /\ pending' = Tail(pending)
               /\ UNCHANGED proc_pc
    /\ UNCHANGED <<file_paths, exclude, path_i, driver_vars, class_vars,
                   checker_vars, last, extract_vars>>

(* the requests: a directory d that holds a.py, b.py, notes.txt and, nested
   MaxDirDepth deep, directories skip; the innermost holds c.py.  The
   request is the directory, one or two of its files, a file and the
   directory, or the directory skip and a file.  The exclusion list is made
   of the names skip and b.py. *)
MaxDirDepth == 1
d_dir == <<"d">>
skip_dir == <<"s", "k", "i", "p">>
a_py == <<"a", ".", "p", "y">>
b_py == <<"b", ".", "p", "y">>
c_py == <<"c", ".", "p", "y">>
notes_txt == <<"n", ".", "t", "x", "t">>
Outcomes == {"clean", "issue", "broken"}
RECURSIVE Trees(_, _)
Trees(path, d) ==
    IF d = 0
    THEN {Dir(path, <<>>, <<File(path \o <<c_py>>, oc)>>) : oc \in Outcomes}
    ELSE {Dir(path, <<sub>>, <<File(path \o <<a_py>>, oa), File(path \o <<b_py>>, ob),
                               File(path \o <<notes_txt>>, "clean")>>) :
              oa \in Outcomes, ob \in Outcomes, sub \in Trees(path \o <<skip_dir>>, d - 1)}
Requests ==
    UNION {{<<t>>, <<t.files[1]>>, <<t.files[1], t.files[2]>>, <<t.files[2], t>>,
            <<t.dirs[1], t.files[3]>>} : t \in Trees(<<d_dir>>, MaxDirDepth)}

\* process_files is called; the checker stands idle
InitFiles ==
    /\ file_paths \in Requests
    /\ exclude \in SUBSET {skip_dir, b_py}
    /\ path_i = 1
    /\ pending = <<>>
    /\ proc_errors = <<>>
    /\ proc_pc = "loop"
    /\ assign_target = [k |-> "None"]
    /\ leaf_names = <<>>
    /\ result = {}
    /\ filename = None
    /\ units = <<>>
    /\ module_globals = {}
    /\ vars = {}
    /\ pc = "done"
    /\ idx = 1
    /\ all_errors = <<>>
    /\ is_sub_class = FALSE
    /\ method_nodes = <<>>
    /\ obj_attrs = {}
    /\ cls_errors = <<>>
    /\ mi = 1
    /\ scopes = <<>>
    /\ for_loop_vars = {}
    /\ attr_check = FALSE
    /\ last_func_scope = {}
    /\ errors = <<>>
    /\ work = <<>>
    /\ raised = FALSE
    /\ last = NothingLeft

NextFiles ==
    \/ process_files_path
    \/ process_files_file

SpecFiles == InitFiles /\ [][NextFiles]_all_vars

(***************************************************************************)
(* C21                                                                     *)
(***************************************************************************)
\* the files of the whole request, in the order they are checked
Discovered ==
    Concat([i \in 1..Len(file_paths) |-> find_python_files(file_paths[i], exclude)])

\* C21: the error of a file propagates out of process_files only when the
\* request comes down to one file; and when process_files returns, its
\* result holds, file after file, the diagnostics of every file that could
\* be checked and one 'unrecoverable error' for every file that could not.
C21_FailureOnOneFileNeverAborts ==
    /\ proc_pc = "raised" => Len(Discovered) = 1
    /\ proc_pc = "returned" =>
          proc_errors = Concat([i \in 1..Len(Discovered) |->
                                   IF Discovered[i].outcome = "broken"
                                   THEN <<Unrecoverable(Discovered[i])>>
                                   ELSE IssuesOf(Discovered[i])])

(***************************************************************************)
(* C22                                                                     *)
(***************************************************************************)
\* C22: of the files that the discovery under a directory root has yielded
\* and that wait to be checked, none has, below the root, a directory name
\* or a file name of the exclusion list in its path.
C22_DiscoveryHonoursExclusions ==
    \A j \in 1..Len(pending) :
        LET root == file_paths[path_i - 1]
        IN root.kind = "dir" =>
              \A k \in (Len(root.path) + 1)..Len(pending[j].path) :
                  pending[j].path[k] \notin exclude


(***************************************************************************)
(* C23                                                                     *)
(***************************************************************************)
\* files whose constructs report diagnostics from inside their scopes:
\* nested loops, try statements, with statements, reads in every position
SpecStack ==
    InitWith(CoreInputs \cup NestInputs \cup TryInputs \cup WithInputs \cup ReadInputs)
    /\ [][Next]_all_vars

\* a unit is being checked, or has just been
Checking == pc \in {"func", "class_init", "class_method"}
\* the frames of handlers that stand inside `with self._scope(...)`
HoldsScope(frame) ==
    \/ frame.op \in {"FunctionDef_end", "Lambda_end", "For_end", "While_end", "If_resume",
                     "Try_resume", "Comp_end"}
    \/ frame.op = "With_end" /\ frame.scoped
OpenScopes == Cardinality({i \in 1..Len(work) : HoldsScope(work[i])})

\* C23: in batch mode, while a unit is checked, the scope stack has its
\* bottom scope, which holds the global symbols, the builtins and, for a
\* method, the known attributes, plus one scope for every handler that has
\* pushed one and has not returned; every construct that has been left has
\* left the depth it found; and the depth is 1 when the traversal has ended.
C23_ScopeStackBalanced ==
    (filename # None /\ Checking) =>
        /\ scopes # <<>>
        /\ vars \cup Builtins \subseteq scopes[1]
        /\ pc = "class_method" => obj_attrs \subseteq scopes[1]
        /\ Len(scopes) = 1 + OpenScopes
        /\ Len(last.post) = Len(last.pre)
        /\ work = <<>> => Len(scopes) = 1

\* the check of a function has ended with diagnostics, of which one is for
\* a loop that took the target of the loop around it
C23_Witness ==
    /\ filename # None /\ pc = "func" /\ work = <<>>
    /\ \E i \in 1..Len(errors) : errors[i].kind = "reuse"
    /\ last.node.k = "FunctionDef"
    /\ Len(scopes) = 1


(***************************************************************************)
(* C24                                                                     *)
(***************************************************************************)
\* the targets of the for loops that have been entered and not yet left
OpenLoopTargets ==
    UNION {Range(work[i].ite) : i \in {j \in 1..Len(work) : work[j].op = "For_end"}}

\* C24: in batch mode, while a unit is checked, the registry of loop
\* variables holds exactly the targets of the for loops that have been
\* entered and not yet left: the target of an outer loop is in it until the
\* outer loop is left, and it is empty when the traversal has ended.
C24_RegistryIsTheOpenLoops ==
    (filename # None /\ Checking) => for_loop_vars = OpenLoopTargets


(***************************************************************************)
(* C25                                                                     *)
(***************************************************************************)
(* files of one or two units: a function or a class that reads x, or
   self.m in a method, alone, after or before a class A that has a
   class-level x and a method m *)
LeakingClass == ClassDef(nA, <<>>, <<Asg(nx), Method(nm, <<Pass>>)>>)
LeakReaders ==
    {Def(nf, <<Use(nx, 5)>>),
     Def(nf, <<UseAttr(nm, 5)>>),
     ClassDef(nB, <<>>, <<Method(ng, <<Use(nx, 5)>>)>>),
     ClassDef(nB, <<Load(nException, 0)>>, <<Method(ng, <<Use(nx, 5)>>)>>)}
LeakInputs ==
    UNION {{Batch(<<Asg(ns), reader>>),
            Batch(<<Asg(ns), LeakingClass, reader>>),
            Batch(<<Asg(ns), reader, LeakingClass>>)} : reader \in LeakReaders}

SpecLeak == InitWith(CoreInputs \cup LeakInputs) /\ [][Next]_all_vars

\* the unit reads, on line 5, a name that it does not bind itself
IsLeakReader(unit) == unit \in LeakReaders
ReadOnLine5(unit) ==
    LET reads == {n \in walk(unit) : n.k = "Name" /\ n.ctx = "Load" /\ n.lineno = 5}
    IN {n.id : n \in reads}

\* C25: the symbols that check_file hands to every unit stay the
\* module-level ones whatever classes have been checked; and when a file has
\* been checked, a unit's read of a plain name that neither the module nor
\* the builtins bind is reported, whichever classes the file holds before it.
C25_ClassCheckLeavesOuterSymbols ==
    filename # None =>
        /\ vars = ModuleVars(units)
        /\ pc = "done" =>
              \A u \in 1..Len(units) :
                  IsLeakReader(units[u]) =>
                      \A v \in ReadOnLine5(units[u]) \ (ModuleVars(units) \cup Builtins) :
                          Reported(5, "unresolved", v)


(***************************************************************************)
(* C26                                                                     *)
(***************************************************************************)
(* classes of three methods: a constructor that calls self.m(), itself,
   self.z() (no method of the class) or nothing; a method m that assigns
   self.a, by an assignment, an annotated assignment, a with statement or a
   for loop, or assigns nothing; and a method g that reads self.a on line 5.
   The class has a base class or not. *)
InitBodies == {<<CallSelf(nm)>>, <<CallSelf(ninit)>>, <<CallSelf(nz)>>, <<Pass>>}
AttrTarget(attr) == Attribute(Self, attr, "Store", 0)
AssigningBodies ==
    {<<SetAttr(na)>>,
     <<AnnAssign(AttrTarget(na), Load(nprint, 0), <<Constant>>)>>,
     <<With(<<withitem(Call(Load(nprint, 0), <<>>), <<AttrTarget(na)>>)>>, <<Pass>>)>>,
     <<For(AttrTarget(na), Load(ns, 0), <<Pass>>)>>,
     <<Pass>>}
InitCallInputs ==
    {Batch(<<Asg(ns), ClassDef(nA, bases, <<Method(ninit, init), Method(nm, body),
                                            Method(ng, <<UseAttr(na, 5)>>)>>)>>) :
        bases \in {<<>>, <<Load(nException, 0)>>},
        init \in InitBodies,
        body \in AssigningBodies}

SpecInitCall == InitWith(CoreInputs \cup InitCallInputs) /\ [][Next]_all_vars

\* the attributes of self that the methods of a class assign: the
\* attributes of self in Store context
AssignedAttrs(cls) ==
    {SelfAttr(n.attr) :
        n \in {m \in walk(cls) : /\ m.k = "Attribute" /\ m.ctx = "Store"
                                 /\ m.value.k = "Name" /\ m.value.id = nself}}
\* the constructor holds a call self.m(...), m another method of the class
CallsAnotherMethod(cls) ==
    \E n \in walk(InitMethod(MethodNodes(cls))[1]) :
        /\ n.k = "Call" /\ n.func.k = "Attribute"
        /\ n.func.value.k = "Name" /\ n.func.value.id = nself
        /\ n.func.attr # ninit
        /\ \E i \in 1..Len(cls.body) : IsFunc(cls.body[i]) /\ cls.body[i].name = n.func.attr
\* the reads of attributes of self in the methods other than the constructor
AttrReads(cls) ==
    UNION {{n \in walk(cls.body[i]) : /\ n.k = "Attribute" /\ n.ctx = "Load"
                                      /\ n.value.k = "Name" /\ n.value.id = nself}
           : i \in {j \in 1..Len(cls.body) : IsFunc(cls.body[j]) /\ cls.body[j].name # ninit}}

\* C26: when a class without a base class, whose constructor and methods are
\* not skip-marked, has been checked: if the constructor calls another
\* method of the class, no read, outside the constructor, of an attribute
\* that some method assigns is reported; if it calls none, the read of an
\* attribute that is neither a method, a class-level name nor assigned in
\* the constructor is reported, whatever the other methods assign.
C26_InitCallMakesAllAssignmentsKnown ==
    (pc = "done" /\ filename # None) =>
        \A u \in ClassesWithInit :
            Undecorated(units[u]) =>
                \A n \in AttrReads(units[u]) :
                    IF CallsAnotherMethod(units[u])
                    THEN SelfAttr(n.attr) \in AssignedAttrs(units[u])
                         => ~Diagnosed(n.lineno, SelfAttr(n.attr))
                    ELSE (/\ SelfAttr(n.attr) \notin AssignedAttrs(TheInit(u))
                          /\ SelfAttr(n.attr) \notin
                                ClassScopeVars({}, units[u])
                                \cup {SelfAttr(v) : v \in class_level_vars(units[u])})
                         => Diagnosed(n.lineno, SelfAttr(n.attr))


(***************************************************************************)
(* C27                                                                     *)
(***************************************************************************)
(* chains `if c: x = 1 else: ...` whose else body is one or two statements:
   a read of z, an assignment, an if statement; the reads are on the lines
   4, 5 and 6 *)
ElseStmts(l) ==
    {Use(nz, l), Asg(nx), If(Cond, <<Use(nz, l)>>, <<>>),
     If(Cond, <<Asg(nx)>>, <<Use(nz, l)>>)}
ElseBlocks ==
    {<<a>> : a \in ElseStmts(4)}
    \cup {<<a, b>> : a \in ElseStmts(4), b \in ElseStmts(6)}
ElseInputs ==
    {Batch(<<Asg(nc), Def(nf, <<If(Cond, <<Asg(nx)>>, orelse)>>)>>) : orelse \in ElseBlocks}

SpecElse == InitWith(CoreInputs \cup ElseInputs) /\ [][Next]_all_vars

RECURSIVE BranchReads(_)
\* the reads of plain names in the statements of a block and, for the if
\* statements among them, of their branch bodies (not of their tests)
BranchReads(stmts) ==
    UNION {IF stmts[j].k = "If"
           THEN BranchReads(stmts[j].body) \cup BranchReads(stmts[j].orelse)
           ELSE ReadsOf(stmts[j])
           : j \in 1..Len(stmts)}
\* a function made of one chain of if statements, assignments and reads
RECURSIVE IsChainBlock(_)
IsChainBlock(stmts) ==
    \A j \in 1..Len(stmts) :
        \/ IsRead(stmts[j])
        \/ stmts[j].k = "Assign" /\ IsStraightLine(stmts[j])
        \/ stmts[j].k = "If" /\ IsChainBlock(stmts[j].body) /\ IsChainBlock(stmts[j].orelse)
HowOften(lineno, kind, v) ==
    Cardinality({i \in 1..Len(all_errors) : /\ all_errors[i].lineno = lineno
                                            /\ all_errors[i].kind = kind
                                            /\ all_errors[i].var = v})

\* C27: when a function made of a chain of if statements has been checked,
\* every statement of every branch body has been visited once: each read, in
\* a branch body, of a name that is bound nowhere has exactly one
\* diagnostic, also in an else body of several statements that begins
\* with an if statement.
C27_EveryBranchStatementVisitedOnce ==
    (pc = "done" /\ filename # None) =>
        \A u \in 1..Len(units) :
            (/\ IsFunc(units[u]) /\ Len(units[u].body) = 1
             /\ units[u].body[1].k = "If" /\ IsChainBlock(units[u].body)) =>
                \A n \in BranchReads(units[u].body) :
                    (Unbound(units[u], n.id) /\ n.id \notin BoundSomewhere(units[u]))
                    => HowOften(n.lineno, "unresolved", n.id) = 1


(***************************************************************************)
(* C28                                                                     *)
(***************************************************************************)
\* the kinds of parameters of ast.arguments
ParamKinds == {"posonlyargs", "args", "vararg", "kwonlyargs", "kwarg"}
\* ast.arguments declaring `first` of kind k1 and `second` of kind k2
\* (vararg and kwarg hold one name at most)
ArgumentsOf(k1, first, k2, second) ==
    [k \in ParamKinds |->
        (IF k = k1 THEN <<first>> ELSE <<>>) \o (IF k = k2 THEN <<second>> ELSE <<>>)]
ParamLists ==
    UNION {{ArgumentsOf(k1, na, k2, nb) :
               k2 \in {k \in ParamKinds : k \notin {"vararg", "kwarg"} \/ k # k1}}
           : k1 \in ParamKinds}
\* a nested function or a lambda reading its two parameters on line 3,
\* followed by a read of the first one on line 4
ParamInputs ==
    {Batch(<<Asg(nc), Def(nf, <<FunctionDef(ng, args, <<Use(na, 3), Use(nb, 3)>>, <<>>),
                                Use(na, 4)>>)>>) : args \in ParamLists}
    \cup {Batch(<<Asg(nc), Def(nf, <<Expr(Lambda(args, Tuple(<<Load(na, 3), Load(nb, 3)>>, 3))),
                                     Use(na, 4)>>)>>) : args \in ParamLists}

SpecParams == InitWith(CoreInputs \cup ParamInputs) /\ [][Next]_all_vars

\* every name an ast.arguments node declares
Declared(args) ==
    Range(args.posonlyargs) \cup Range(args.args) \cup Range(args.vararg)
    \cup Range(args.kwonlyargs) \cup Range(args.kwarg)
\* the nested function or lambda that opens a function of two statements
Parametrised(func) ==
    IF func.body[1].k = "Expr" THEN func.body[1].value ELSE func.body[1]
IsParametrised(func) ==
    /\ IsFunc(func) /\ Len(func.body) = 2
    /\ \/ func.body[1].k = "FunctionDef"
       \/ func.body[1].k = "Expr" /\ func.body[1].value.k = "Lambda"
    /\ Declared(Parametrised(func).args) # {}

\* C28: when a function that holds a nested function or a lambda with
\* parameters has been checked, no read of a declared parameter inside the
\* body of the nested function or lambda (line 3) is reported, whatever the
\* kind of the parameter, and the read of the parameter after it (line 4)
\* is reported.
C28_EveryParameterVisibleInsideOnly ==
    (pc = "done" /\ filename # None) =>
        \A u \in 1..Len(units) :
            IsParametrised(units[u]) =>
                /\ \A v \in Declared(Parametrised(units[u]).args) :
                      ~Reported(3, "unresolved", v)
                /\ Reported(4, "unresolved", na)


(***************************************************************************)
(* C29                                                                     *)
(***************************************************************************)
\* the bodies of a nested definition called `name`: reading the name on
\* line 3, directly or in a method, or not reading it
DefinitionBodies(name) ==
    {<<Pass>>, <<Use(name, 3)>>, <<Method(nm, <<Use(name, 3)>>)>>,
     <<Asg(nv), Use(name, 3)>>}
\* functions and classes without the skip marker
Definitions ==
    UNION {{FunctionDef(name, Arguments(<<>>), body, <<>>) : body \in DefinitionBodies(name)}
           \cup {ClassDef(name, <<>>, body) : body \in DefinitionBodies(name)}
           : name \in {ng, nA}}
\* a function holding one definition, then a read of its name on line 5
DefinitionInputs ==
    {Batch(<<Asg(nc), Def(nf, <<d, Use(d.name, 5)>>)>>) : d \in Definitions}
    \cup {Batch(<<Asg(nc), Def(nf, <<Asg(nx), d, Use(d.name, 5)>>)>>) : d \in Definitions}

SpecDefinitions == InitWith(CoreInputs \cup DefinitionInputs) /\ [][Next]_all_vars

\* the index of a nested definition directly followed by the last
\* statement of the function, a read
DefinitionAt(func) == Len(func.body) - 1
HoldsDefinition(func) ==
    /\ IsFunc(func) /\ Len(func.body) >= 2
    /\ func.body[DefinitionAt(func)].k \in {"FunctionDef", "ClassDef"}
    /\ ~_decorated_to_skip_checking(func.body[DefinitionAt(func)])
    /\ IsRead(func.body[Len(func.body)])

\* C29: when a function that holds a nested function or class definition
\* without the skip marker has been checked, the name of the definition
\* is reported neither for a read inside the definition's own body
\* (line 3) nor for the read that follows the definition in the same scope
\* (line 5), for functions and for classes alike.
C29_DefinitionBindsItsName ==
    (pc = "done" /\ filename # None) =>
        \A u \in 1..Len(units) :
            HoldsDefinition(units[u]) =>
                LET name == units[u].body[DefinitionAt(units[u])].name
                IN /\ ~Reported(3, "unresolved", name)
                   /\ ~Reported(5, "unresolved", name)


(***************************************************************************)
(* C30                                                                     *)
(***************************************************************************)
MaxNameLen == 6
RECURSIVE NamesOfLen(_)
\* the identifiers of a given length written with "_" and "a"
NamesOfLen(n) ==
    IF n = 0 THEN {<<>>}
    ELSE {Append(v, ch) : v \in NamesOfLen(n - 1), ch \in {"_", "a"}}
DunderLikeNames == UNION {NamesOfLen(n) : n \in 1..MaxNameLen}
\* a function that reads one name on line 2
DunderInputs ==
    {Batch(<<Asg(nc), Def(nf, <<Use(v, 2)>>)>>) : v \in DunderLikeNames}

SpecDunder == InitWith(CoreInputs \cup DunderInputs) /\ [][Next]_all_vars

\* a name made of a double underscore, at least one character and a
\* double underscore
IsDunder(v) ==
    /\ Len(v) >= 5
    /\ v[1] = "_" /\ v[2] = "_"
    /\ v[Len(v) - 1] = "_" /\ v[Len(v)] = "_"
IsOneRead(func) == IsFunc(func) /\ Len(func.body) = 1 /\ IsRead(func.body[1])

\* C30: when a function that reads one name bound in no scope has been
\* checked, the read is reported exactly when the name is not one that
\* both starts and ends with a double underscore; a name that starts with
\* a double underscore and only contains another one is reported.
C30_ExemptExactlyTheDunderNames ==
    (pc = "done" /\ filename # None) =>
        \A u \in 1..Len(units) :
            IsOneRead(units[u]) =>
                LET n == units[u].body[1].value
                IN n.id \notin vars \cup Builtins \cup {units[u].name}
                   => (Reported(n.lineno, "unresolved", n.id) <=> ~IsDunder(n.id))


(***************************************************************************)
(* C31                                                                     *)
(***************************************************************************)
\* conditions: without an assignment expression, with one, with one whose
\* value is another one, and with two as the arguments of a call
WalrusTests ==
    {Cond, Walrus(ny), Walrus(nz), NamedExpr(Store(ny, 0), Walrus(nz)),
     Call(Load(nprint, 0), <<Walrus(ny), Walrus(nz)>>)}
\* the body of branch number b reads y and z on line b
BranchReading(b) == <<Use(ny, b), Use(nz, b)>>
\* chains of an if, at most one elif and at most one else
WalrusChains ==
    {If(t1, BranchReading(1), orelse) :
        t1 \in WalrusTests,
        orelse \in {<<>>, BranchReading(2)}
                   \cup {<<If(t2, BranchReading(2), last_orelse)>> :
                            t2 \in WalrusTests, last_orelse \in {<<>>, BranchReading(3)}}}
WalrusInputs == {Batch(<<Asg(nc), Def(nf, <<chain>>)>>) : chain \in WalrusChains}

SpecWalrus == InitWith(CoreInputs \cup WalrusInputs) /\ [][Next]_all_vars

\* the names the assignment expressions of an expression bind
AllWalrus(expr) ==
    {n.target.id : n \in {m \in walk(expr) : m.k = "NamedExpr" /\ m.target.k = "Name"}}
\* the names bound by the conditions evaluated before branch number b of a
\* chain is entered (the else branch has no condition of its own)
BoundUpTo(chain, b) ==
    UNION {AllWalrus(ChainConditions(chain)[j]) :
           j \in {i \in 1..Len(ChainConditions(chain)) : i <= b}}
IsWalrusChain(func) ==
    /\ IsFunc(func) /\ Len(func.body) = 1 /\ func.body[1].k = "If"
    /\ \A b \in 1..Len(BranchBodies(func.body[1])) :
          BranchBodies(func.body[1])[b] = BranchReading(b)

\* C31: when a function made of one if/elif/else chain whose branch bodies
\* read y and z has been checked, a read in branch number b is not reported
\* when an assignment expression of the primary condition or of an elif
\* condition up to that branch binds the name, and is reported when only a
\* later condition binds it, or none.
C31_ConditionBindingsAccumulate ==
    (pc = "done" /\ filename # None) =>
        \A u \in 1..Len(units) :
            IsWalrusChain(units[u]) =>
                \A b \in 1..Len(BranchBodies(units[u].body[1])) :
                    \A v \in {ny, nz} :
                        Reported(b, "unresolved", v)
                        <=> v \notin BoundUpTo(units[u].body[1], b)


(***************************************************************************)
(* C32                                                                     *)
(***************************************************************************)
\* a method, synchronous or not, that reads on its line a name bound
\* nowhere, the class-level variable x as x and as self.x, and the methods
\* m and g as attributes of self
MethodReading(kind, name, lineno) ==
    [k |-> kind, name |-> name, args |-> Arguments(<<nself>>),
     body |-> <<Use(nz, lineno), Use(nx, lineno), UseAttr(nx, lineno),
                UseAttr(nm, lineno), UseAttr(ng, lineno)>>,
     decorator_list |-> <<>>]
MethodKinds == {"FunctionDef", "AsyncFunctionDef"}
\* classes with a class-level variable, two methods and, for some, a
\* constructor that stands last in the class body
MethodClasses ==
    {ClassDef(nA, <<>>, <<Asg(nx), MethodReading(k1, nm, 3), MethodReading(k2, ng, 5)>>
                        \o constructor) :
        k1 \in MethodKinds, k2 \in MethodKinds,
        constructor \in {<<>>, <<Method(ninit, <<Use(nz, 7)>>)>>,
                         <<Method(ninit, <<Use(nz, 7), Use(nx, 7)>>)>>}}
MethodInputs == {Batch(<<Asg(nc), cls>>) : cls \in MethodClasses}

SpecMethods == InitWith(CoreInputs \cup MethodInputs) /\ [][Next]_all_vars

\* the methods of a class body, and the line each one reads on
MethodsOf(cls) == {i \in 1..Len(cls.body) : IsFunc(cls.body[i])}
LineOf(method) == method.body[1].value.lineno
IsMethodClass(cls) ==
    /\ cls.k = "ClassDef" /\ cls.bases = <<>>
    /\ MethodsOf(cls) # {}
    /\ \A i \in MethodsOf(cls) : IsRead(cls.body[i].body[1]) /\ cls.body[i].body[1].value.id = nz

\* C32: when a class has been checked, no read of self.<method> is reported,
\* for any method of the class body, synchronous or asynchronous; no read
\* of a class-level variable v, as v or as self.v, is reported; the body of
\* each method has been checked exactly once (the name bound nowhere that
\* it reads has one diagnostic), and the diagnostics of the constructor
\* come first.
C32_MethodsAndClassVariablesVisible ==
    (pc = "done" /\ filename # None) =>
        \A u \in 1..Len(units) :
            IsMethodClass(units[u]) =>
                /\ \A i \in MethodsOf(units[u]), l \in 1..7 :
                      ~Reported(l, "unresolved", SelfAttr(units[u].body[i].name))
                /\ \A v \in class_level_vars(units[u]), l \in 1..7 :
                      /\ ~Reported(l, "unresolved", v)
                      /\ ~Reported(l, "unresolved", SelfAttr(v))
                /\ \A i \in MethodsOf(units[u]) :
                      HowOften(LineOf(units[u].body[i]), "unresolved", nz) = 1
                /\ \A i, j \in 1..Len(all_errors) :
                      (all_errors[i].lineno = 7 /\ all_errors[j].lineno # 7) => i < j


(***************************************************************************)
(* C33                                                                     *)
(***************************************************************************)
\* generator expressions over the clauses and elements of the
\* comprehensions: the element is read on line 1, the filter on line 2,
\* and a target is read after the expression, on line 5
GeneratorExps == {GeneratorExp(e, gs) : e \in CompElts(1), gs \in Generators}
GenExpInputs ==
    {Batch(<<Asg(ns), Def(nf, <<Expr(gen), Use(t, 5)>>)>>) :
        gen \in GeneratorExps, t \in {ni, nj}}

SpecGenExp == InitWith(CoreInputs \cup GenExpInputs) /\ [][Next]_all_vars

\* the function is a generator expression followed by a read
IsGenExpThenRead(func) ==
    /\ IsFunc(func) /\ Len(func.body) = 2
    /\ func.body[1].k = "Expr" /\ func.body[1].value.k = "GeneratorExp"
    /\ IsRead(func.body[2])

\* C33: when a function made of a generator expression and a read has been
\* checked, no read of a target of the expression in its element or in its
\* filters is reported, and the read after the expression of a target that
\* nothing else binds is reported.
C33_GeneratorExpressionScopedLikeListComp ==
    (pc = "done" /\ filename # None) =>
        \A u \in 1..Len(units) :
            IsGenExpThenRead(units[u]) =>
                LET gen == units[u].body[1].value
                    after == units[u].body[2].value
                IN /\ \A n \in CompReads(gen) :
                          n.id \in CompTargets(gen)
                          => ~Reported(n.lineno, "unresolved", n.id)
                   /\ Unbound(units[u], after.id)
                      => Reported(after.lineno, "unresolved", after.id)

=============================================================================
